---- MODULE Spec2Model ----
(***************************************************************************)
(* The idempotent, at-least-once command pipeline of hound-todo:           *)
(*   ingress-svc (webhook -> envelope on a durable queue),                  *)
(*   command-svc (consumer loop, AI classification, dispatch, reply),      *)
(*   todo-domain-svc (gRPC server over the todos / idempotency_keys        *)
(*   tables).                                                              *)
(* Text that the code processes byte by byte (titles, bodies, hints,       *)
(* replies) is a sequence of one-character strings; identifiers that the   *)
(* code only compares (user ids, message sids, idempotency keys, status    *)
(* names) are strings.                                                     *)
(***************************************************************************)
EXTENDS Integers, Sequences, FiniteSets, TLC

VARIABLES
    todos,      \* table todos: row i has id i (SERIAL primary key)
    idem,       \* table idempotency_keys: a set of rows [key, response, created_at]
    clock,      \* the store's wall clock: time.Now() is clock + 1, then the clock ticks
    rpc,        \* rpc[c]: the gRPC call client c has outstanding at todo-domain-svc
    faults,     \* injected infrastructure failures so far (crash, db error, ...)
    ncalls,     \* calls issued by the direct gRPC clients of SpecDomain
    applied,    \* history: applied[k] = row-changing mutations executed under key k
    recorded,   \* history: recorded[k] = the response object whose record write won key k
    lost,       \* history: keys whose mutation committed in a call the server crashed out of
    up,         \* the command-svc instances that are running
    ctx,        \* ctx[c]: the context main hands to Start ("live" until cancel())
    msgs,       \* msgs[c]: the deliveries in instance c's channel, not yet taken
    textq,      \* queue text.commands: messages [id, body] not yet delivered
    audioq,     \* queue audio.processing: the bodies published to it
    replies,    \* queue sms.replies: the SMSReply objects published to it
    con,        \* con[c]: the consumer loop and handler of command-svc instance c
    http,       \* the last webhook request: the event, the instance that took
                \* it, the status answered (0: none yet); seq flips per request
    llm,        \* the commands the classifier may answer in this behaviour
    hist,       \* history: hist[m] = origin, body and disposition counts of message m
    handled,    \* history: the results executeCommand returned, per handler invocation
    cut,        \* history: messages with a handling that was running when cancel()
                \* was called and in which a call then failed for the cancelled context
    scenarioSM1 \* history: the store started empty and only the SM1 "buy milk" event
                \* and its create classification have occurred

domVars == <<todos, idem, clock, rpc, faults, applied, recorded, lost>>
pipeVars == <<up, ctx, msgs, textq, audioq, replies, con, http, llm, hist, handled,
              cut, scenarioSM1>>
vars == <<domVars, ncalls, pipeVars>>

----------------------------------------------------------------------------
(* Bounds of the model *)

MaxCalls == 2      \* gRPC calls issued by direct clients (SpecDomain)
MaxFaults == 1     \* injected infrastructure failures per behaviour
MaxMsgs == 2       \* messages published to the queues
MaxCount == 2      \* the history counters of a message count up to this

----------------------------------------------------------------------------
(* Text *)

EmptyStr == <<>>

\* The texts of requests, todos and classifier answers in the model.
Str ==
    [ buy_milk |-> <<"b","u","y"," ","m","i","l","k">>,
      Milk_run |-> <<"M","i","l","k"," ","r","u","n">>,
      eggs |-> <<"e","g","g","s">>,
      milk |-> <<"m","i","l","k">>,
      2pct |-> <<"2","%">>,
      sp_done_milk_sp |->
          <<" ","d","o","n","e"," ","w","i","t","h"," ","m","i","l","k","\n">>,
      blank |-> <<" "," ">>,
      one |-> <<"1">>,
      tick |-> <<"E2","9C","93">>,
      cross |-> <<"E2","9C","97">>,
      completed |-> <<"c","o","m","p","l","e","t","e","d">>,
      all |-> <<"a","l","l">>,
      stretch |->
          <<"p","u","t"," ","o","n"," ","y","o","u","r"," ","s","h","o","e",
            "s">>,
      run |-> <<"t","h","e"," ","r","u","n">>,
      bad_json |->
          <<"F","a","i","l","e","d"," ","t","o"," ","p","a","r","s","e"," ",
            "L","L","M"," ","r","e","s","p","o","n","s","e">>,
      not_json |->
          <<"L","L","M"," ","r","e","s","p","o","n","s","e"," ","w","a","s",
            " ","n","o","t"," ","v","a","l","i","d"," ","J","S","O","N">>,
      date |->
          <<"2","0","2","6","-","0","1","-","0","1","T","0","0",":","0","0",
            ":","0","0","Z">>,
      not_sure |->
          <<"n","o","t"," ","s","u","r","e"," ","w","h","i","c","h"," ","i",
            "t","e","m">> ]

\* The texts the dispatcher builds its replies from.
Msg ==
    [ NoTitle |->
          <<"I"," ","c","o","u","l","d","n","'","t"," ","f","i","g","u","r",
            "e"," ","o","u","t"," ","w","h","a","t"," ","t","o"," ","a","d",
            "d","."," ","W","h","a","t"," ","w","o","u","l","d"," ","y","o",
            "u"," ","l","i","k","e"," ","m","e"," ","t","o"," ","r","e","m",
            "e","m","b","e","r","?">>,
      Added |-> <<"A","d","d","e","d"," ","#">>,
      Completed |-> <<"C","o","m","p","l","e","t","e","d"," ","#">>,
      Deleted |-> <<"D","e","l","e","t","e","d"," ","#">>,
      Updated |-> <<"U","p","d","a","t","e","d"," ","#">>,
      Colon |-> <<":"," ">>,
      Check |-> <<" ","E2","9C","93">>,
      NotFoundPre |->
          <<"I"," ","c","o","u","l","d","n","'","t"," ","f","i","n","d"," ",
            "a"," ","t","o","d","o"," ","m","a","t","c","h","i","n","g"," ",
            "'">>,
      Quote |-> <<"'">>,
      WhichComplete |->
          <<"W","h","i","c","h"," ","t","o","d","o"," ","d","o"," ","y","o",
            "u"," ","w","a","n","t"," ","t","o"," ","c","o","m","p","l","e",
            "t","e","?"," ","G","i","v","e"," ","m","e"," ","a"," ","n","u",
            "m","b","e","r"," ","o","r"," ","d","e","s","c","r","i","b","e",
            " ","i","t",".">>,
      WhichDelete |->
          <<"W","h","i","c","h"," ","t","o","d","o"," ","d","o"," ","y","o",
            "u"," ","w","a","n","t"," ","t","o"," ","d","e","l","e","t","e",
            "?"," ","G","i","v","e"," ","m","e"," ","a"," ","n","u","m","b",
            "e","r"," ","o","r"," ","d","e","s","c","r","i","b","e"," ","i",
            "t",".">>,
      WhichEdit |->
          <<"W","h","i","c","h"," ","t","o","d","o"," ","d","o"," ","y","o",
            "u"," ","w","a","n","t"," ","t","o"," ","e","d","i","t","?"," ",
            "G","i","v","e"," ","m","e"," ","a"," ","n","u","m","b","e","r",
            " ","o","r"," ","d","e","s","c","r","i","b","e"," ","i","t",".">>,
      ChangeTo |->
          <<"W","h","a","t"," ","d","o"," ","y","o","u"," ","w","a","n","t",
            " ","t","o"," ","c","h","a","n","g","e"," ","i","t"," ","t","o",
            "?">>,
      NoneInRange |->
          <<"N","o"," ","c","o","m","p","l","e","t","e","d"," ","t","o","d",
            "o","s"," ","f","o","u","n","d"," ","i","n"," ","t","h","a","t",
            " ","t","i","m","e"," ","r","a","n","g","e",".">>,
      EmptyList |->
          <<"Y","o","u","r"," ","l","i","s","t"," ","i","s"," ","e","m","p",
            "t","y","!"," ","T","e","x","t"," ","m","e"," ","s","o","m","e",
            "t","h","i","n","g"," ","t","o"," ","r","e","m","e","m","b","e",
            "r",".">>,
      YourTodos |-> <<"Y","o","u","r"," ","t","o","d","o","s",":","\n">>,
      Hash |-> <<"#">>,
      Newline |-> <<"\n">>,
      NudgeUnsure |->
          <<"I","'","m"," ","n","o","t"," ","s","u","r","e"," ","h","o","w",
            " ","t","o"," ","h","e","l","p"," ","w","i","t","h"," ","t","h",
            "a","t","."," ","W","h","a","t"," ","a","r","e"," ","y","o","u",
            " ","t","r","y","i","n","g"," ","t","o"," ","s","t","a","r","t",
            "?">>,
      For |-> <<"F","o","r"," ">>,
      Unclear |->
          <<"I"," ","d","i","d","n","'","t"," ","q","u","i","t","e"," ","u",
            "n","d","e","r","s","t","a","n","d"," ","t","h","a","t","."," ">>,
      UnclearDefault |->
          <<"I"," ","d","i","d","n","'","t"," ","u","n","d","e","r","s","t",
            "a","n","d","."," ","T","r","y"," ","'","a","d","d"," ","[","t",
            "a","s","k","]","'",","," ","'","d","o","n","e"," ","w","i","t",
            "h"," ","[","t","a","s","k","]","'",","," ","o","r"," ","'","s",
            "h","o","w"," ","m","y"," ","l","i","s","t","'">>,
      NotePre |-> <<"\n","\n","(","N","o","t","e",":"," ">>,
      NotePost |-> <<")">>,
      Added1BuyMilk |->
          <<"A","d","d","e","d"," ","#","1",":"," ","b","u","y"," ","m","i",
            "l","k">> ]

User1 == "+15551234567"
User2 == "+15557654321"

Clients == {"c1", "c2"}

----------------------------------------------------------------------------
(* shared/idempotency/key.go *)

\* hex.EncodeToString(sha256.Sum256(source)[:16]), tabulated for the message
\* sids of the model (values computed with SHA-256).
Sha256Hex16(source) ==
    CASE source = "SM1" -> "e084a13cc812fc9d09d293dbd8ec4a52"
      [] source = "SM2" -> "c2d3ff2174f95f4f6098e13eccf90422"

\* fmt.Sprintf("idem_%s", ...): the keys, tabulated with their prefix.
GenerateKey(source) ==
    CASE Sha256Hex16(source) = "e084a13cc812fc9d09d293dbd8ec4a52"
            -> "idem_e084a13cc812fc9d09d293dbd8ec4a52"
      [] Sha256Hex16(source) = "c2d3ff2174f95f4f6098e13eccf90422"
            -> "idem_c2d3ff2174f95f4f6098e13eccf90422"

Key1 == GenerateKey("SM1")
Key2 == GenerateKey("SM2")
AllKeys == {"", Key1, Key2}

----------------------------------------------------------------------------
(* todo-domain-svc: store/store.go *)

NullTime == 0    \* a nil *time.Time / SQL NULL

\* Store.CreateTodo: INSERT ... RETURNING id
SqlInsertTodo(tbl, userID, title, description, now) ==
    Append(tbl, [id |-> Len(tbl) + 1, user_id |-> userID, title |-> title,
                 description |-> description, status |-> "active",
                 created_at |-> now, updated_at |-> now,
                 completed_at |-> NullTime, deleted_at |-> NullTime])

\* (mutant) the UPDATE of CompleteTodo without its status condition
CompleteWhere_AnyStatus(tbl, id, userID) ==
    id \in 1..Len(tbl) /\ tbl[id].user_id = userID

\* (mutant) the UPDATE of DeleteTodo without its status condition
DeleteWhere_AnyStatus(tbl, id, userID) ==
    id \in 1..Len(tbl) /\ tbl[id].user_id = userID

\* (mutant) the UPDATE of EditTodo without its status condition
EditWhere_AnyStatus(tbl, id, userID) ==
    id \in 1..Len(tbl) /\ tbl[id].user_id = userID

\* The WHERE clauses of the three UPDATE statements.
CompleteWhere(tbl, id, userID) ==
    id \in 1..Len(tbl) /\ tbl[id].user_id = userID /\ tbl[id].status = "active"

DeleteWhere(tbl, id, userID) ==
    id \in 1..Len(tbl) /\ tbl[id].user_id = userID /\ tbl[id].status # "deleted"

EditWhere(tbl, id, userID) ==
    id \in 1..Len(tbl) /\ tbl[id].user_id = userID /\ tbl[id].status # "deleted"

\* Store.CompleteTodo: UPDATE todos SET status = 'completed', completed_at, updated_at
SqlUpdateComplete(tbl, id, userID, completedAt, now) ==
    IF CompleteWhere(tbl, id, userID)
    THEN [tbl EXCEPT ![id].status = "completed", ![id].completed_at = completedAt,
                     ![id].updated_at = now]
    ELSE tbl

\* Store.DeleteTodo: UPDATE todos SET status = 'deleted', deleted_at, updated_at
SqlUpdateDelete(tbl, id, userID, now) ==
    IF DeleteWhere(tbl, id, userID)
    THEN [tbl EXCEPT ![id].status = "deleted", ![id].deleted_at = now,
                     ![id].updated_at = now]
    ELSE tbl

\* Store.EditTodo: UPDATE todos SET title, description, updated_at
SqlUpdateEdit(tbl, id, userID, title, description, now) ==
    IF EditWhere(tbl, id, userID)
    THEN [tbl EXCEPT ![id].title = title, ![id].description = description,
                     ![id].updated_at = now]
    ELSE tbl

\* result.RowsAffected() of the statement of operation op
RowsAffected(tbl, op, id, userID) ==
    CASE op = "create"   -> 1
      [] op = "complete" -> IF CompleteWhere(tbl, id, userID) THEN 1 ELSE 0
      [] op = "delete"   -> IF DeleteWhere(tbl, id, userID) THEN 1 ELSE 0
      [] op = "edit"     -> IF EditWhere(tbl, id, userID) THEN 1 ELSE 0

\* Store.GetTodo: point lookup by primary key
GetTodoFound(tbl, id) == id \in 1..Len(tbl)

\* (mutant) EditTodo returns the existing row when its UPDATE matched none,
\* as CompleteTodo and DeleteTodo do
StoreResultErr_EditRelaxed(tbl, op, id, userID, rows) ==
    IF rows = 0
    THEN IF ~GetTodoFound(tbl, id) THEN "ErrNotFound"
         ELSE IF tbl[id].user_id # userID THEN "ErrNotOwner"
         ELSE "nil"
    ELSE IF ~GetTodoFound(tbl, id) THEN "ErrNotFound" ELSE "nil"

\* What Store.CompleteTodo / DeleteTodo / EditTodo return after their UPDATE:
\* the error, decided from rowsAffected and the row GetTodo reads back.
StoreResultErr(tbl, op, id, userID, rows) ==
    IF rows = 0
    THEN IF ~GetTodoFound(tbl, id) THEN "ErrNotFound"
         ELSE IF tbl[id].user_id # userID THEN "ErrNotOwner"
         ELSE IF op = "edit" THEN "ErrNotFound"   \* deleted
         ELSE "nil"                               \* already completed or deleted
    ELSE IF ~GetTodoFound(tbl, id) THEN "ErrNotFound" ELSE "nil"

----------------------------------------------------------------------------
(* todo-domain-svc: server/server.go *)

ProtoFields == {"id", "user_id", "title", "description", "status",
                "created_at", "completed_at"}

\* The zero value of each field of the protobuf Todo message.
ProtoZero(f) ==
    CASE f = "id" -> 0
      [] f = "user_id" -> ""
      [] f = "title" -> EmptyStr
      [] f = "description" -> EmptyStr
      [] f = "status" -> "TODO_STATUS_UNSPECIFIED"
      [] f = "created_at" -> NullTime
      [] f = "completed_at" -> NullTime

NoTodo == [f \in ProtoFields |-> ProtoZero(f)]

\* storeToProto: updated_at and deleted_at are not carried over.
storeToProto(t) ==
    [id |-> t.id, user_id |-> t.user_id, title |-> t.title,
     description |-> t.description,
     status |-> CASE t.status = "active" -> "TODO_STATUS_ACTIVE"
                  [] t.status = "completed" -> "TODO_STATUS_COMPLETED"
                  [] t.status = "deleted" -> "TODO_STATUS_DELETED"
                  [] OTHER -> "TODO_STATUS_UNSPECIFIED",
     created_at |-> t.created_at,
     completed_at |-> t.completed_at]

\* json.Marshal of a response {Todo}: the generated struct tags are omitempty,
\* so only the non-zero fields are written.
JsonMarshal(resp) ==
    [f \in {g \in ProtoFields : resp[g] # ProtoZero(g)} |-> resp[f]]

\* json.Unmarshal into a response struct: absent fields keep their zero value.
JsonUnmarshal(json) ==
    [f \in ProtoFields |-> IF f \in DOMAIN json THEN json[f] ELSE ProtoZero(f)]

\* (mutant) the lookup never finds a row
CheckIdempotencyKey_Miss(tbl, key) == {}

\* Store.CheckIdempotencyKey: SELECT response FROM idempotency_keys WHERE key = $1
\* (the set of matching rows; empty is sql.ErrNoRows)
CheckIdempotencyKey(tbl, key) == {r \in tbl : r.key = key}

\* (mutant) ON CONFLICT (key) DO UPDATE: the later response replaces the first
StoreIdempotencyKey_Upsert(tbl, key, resp, now) ==
    {r \in tbl : r.key # key}
        \cup {[key |-> key, response |-> JsonMarshal(resp), created_at |-> now]}

\* Store.StoreIdempotencyKey: INSERT ... ON CONFLICT (key) DO NOTHING
StoreIdempotencyKey(tbl, key, resp, now) ==
    IF \E r \in tbl : r.key = key
    THEN tbl
    ELSE tbl \cup {[key |-> key, response |-> JsonMarshal(resp), created_at |-> now]}

\* (mutant) the field checks without the test of todo_id
ServerValidate_NoIdCheck(op, req) ==
    CASE op = "create" ->
            IF req.user_id = "" \/ req.title = EmptyStr THEN "InvalidArgument" ELSE "OK"
      [] OTHER ->
            IF req.user_id = "" THEN "InvalidArgument" ELSE "OK"

\* The field checks every RPC starts with.
ServerValidate(op, req) ==
    CASE op = "create" ->
            IF req.user_id = "" \/ req.title = EmptyStr THEN "InvalidArgument" ELSE "OK"
      [] op = "list" ->
            IF req.user_id = "" THEN "InvalidArgument" ELSE "OK"
      [] OTHER ->
            IF req.todo_id = 0 \/ req.user_id = "" THEN "InvalidArgument" ELSE "OK"

\* status.Error code for a store error
ErrorCode(err) ==
    CASE err = "ErrNotFound" -> "NotFound"
      [] err = "ErrNotOwner" -> "PermissionDenied"
      [] err = "nil" -> "OK"

NoReq == [user_id |-> "", todo_id |-> 0, title |-> EmptyStr,
          description |-> EmptyStr, idempotency_key |-> ""]

IdleRpc == [pc |-> "idle", op |-> "none", req |-> NoReq, rows |-> 0,
            resp |-> NoTodo, code |-> "OK",
            hit |-> FALSE, sawLost |-> FALSE, mutated |-> FALSE, wrote |-> FALSE]

\* "if req.IdempotencyKey != "" { cached, err := CheckIdempotencyKey ... }":
\* a found record whose JSON decodes ends the call with the cached response;
\* otherwise the call goes on to its store statement.
ServerCheck(r) ==
    LET key     == r.req.idempotency_key
        found   == CheckIdempotencyKey(idem, key)
        present == \E x \in idem : x.key = key
        orphan  == key \in lost /\ recorded[key] = NoTodo
    IN  IF found # {}
        THEN LET x == CHOOSE y \in found : TRUE
             IN  [r EXCEPT !.pc = "done", !.resp = JsonUnmarshal(x.response),
                           !.code = "OK", !.hit = present, !.sawLost = orphan]
        ELSE [r EXCEPT !.pc = "mutate", !.hit = present, !.sawLost = orphan]

\* A call performs the key lookup when its fields are valid and it has a key.
LooksUp(op, req) == ServerValidate(op, req) = "OK" /\ req.idempotency_key # ""

\* The call as the server holds it when it reaches its store statement: the
\* field checks and the key lookup (the call's first statement on the
\* database) are done. dbok: the lookup did not fail.
Invoke(op, req, dbok) ==
    LET r == [IdleRpc EXCEPT !.op = op, !.req = req]
    IN  IF ServerValidate(op, req) # "OK"
        THEN [r EXCEPT !.pc = "done", !.code = "InvalidArgument"]
        ELSE IF req.idempotency_key = ""
        THEN [r EXCEPT !.pc = "mutate"]
        ELSE IF dbok
        THEN ServerCheck(r)
        ELSE [r EXCEPT !.pc = "done", !.code = "Internal"]

\* The outcomes of the lookup's database call that the failure budget allows.
DbOutcomes(performed) ==
    IF performed /\ faults < MaxFaults THEN {TRUE, FALSE} ELSE {TRUE}

\* The store statement of the call: INSERT for create, UPDATE for the others.
StoreExec(tbl, op, req, now) ==
    CASE op = "create" ->
            SqlInsertTodo(tbl, req.user_id, req.title, req.description, now)
      [] op = "complete" ->
            SqlUpdateComplete(tbl, req.todo_id, req.user_id, now, now)
      [] op = "delete" ->
            SqlUpdateDelete(tbl, req.todo_id, req.user_id, now)
      [] op = "edit" ->
            SqlUpdateEdit(tbl, req.todo_id, req.user_id, req.title, req.description, now)

\* (mutant) the mutation and the record write of its key commit as one unit
ServerMutate_Atomic(c) ==
    /\ rpc[c].pc = "mutate"
    /\ LET op   == rpc[c].op
           req  == rpc[c].req
           rows == RowsAffected(todos, op, req.todo_id, req.user_id)
           key  == req.idempotency_key
       IN  /\ todos' = StoreExec(todos, op, req, clock + 1)
           /\ clock' = clock + 1
           /\ applied' = [applied EXCEPT ![key] = @ + rows]
           /\ idem' = IF key # "" /\ rows > 0
                      THEN StoreIdempotencyKey(idem, key,
                               storeToProto(todos'[IF op = "create" THEN Len(todos')
                                                   ELSE req.todo_id]), clock + 1)
                      ELSE idem
           /\ rpc' = [rpc EXCEPT
                  ![c].rows = rows,
                  ![c].mutated = TRUE,
                  ![c].resp = IF op = "create" THEN storeToProto(todos'[Len(todos')])
                              ELSE NoTodo,
                  ![c].pc = IF op = "create"
                            THEN (IF key # "" THEN "record" ELSE "done")
                            ELSE "readback"]
    /\ UNCHANGED <<faults, ncalls, recorded, lost, pipeVars>>

ServerMutate(c) ==
    /\ rpc[c].pc = "mutate"
    /\ LET op   == rpc[c].op
           req  == rpc[c].req
           rows == RowsAffected(todos, op, req.todo_id, req.user_id)
           key  == req.idempotency_key
       IN  /\ todos' = StoreExec(todos, op, req, clock + 1)
           /\ clock' = IF rows > 0 THEN clock + 1 ELSE clock
           /\ applied' = [applied EXCEPT ![key] = @ + rows]
           /\ rpc' = [rpc EXCEPT
                  ![c].rows = rows,
                  ![c].mutated = TRUE,
                  ![c].resp = IF op = "create" THEN storeToProto(todos'[Len(todos')])
                              ELSE NoTodo,
                  ![c].pc = IF op = "create"
                            THEN (IF key # "" THEN "record" ELSE "done")
                            ELSE "readback"]
    /\ UNCHANGED <<idem, faults, ncalls, recorded, lost, pipeVars>>

\* (mutant) the call records its outcome also when the store returned an error
ServerReadBack_RecordsError(c) ==
    /\ rpc[c].pc = "readback"
    /\ LET op  == rpc[c].op
           req == rpc[c].req
           err == StoreResultErr(todos, op, req.todo_id, req.user_id, rpc[c].rows)
       IN  rpc' = [rpc EXCEPT
                     ![c].resp = IF err # "nil" THEN NoTodo
                                 ELSE storeToProto(todos[req.todo_id]),
                     ![c].code = ErrorCode(err),
                     ![c].pc = IF req.idempotency_key # "" THEN "record" ELSE "done"]
    /\ UNCHANGED <<todos, idem, clock, faults, ncalls, applied, recorded, lost, pipeVars>>

\* The GetTodo after the UPDATE, and the mapping of the store's error.
ServerReadBack(c) ==
    /\ rpc[c].pc = "readback"
    /\ LET op  == rpc[c].op
           req == rpc[c].req
           err == StoreResultErr(todos, op, req.todo_id, req.user_id, rpc[c].rows)
       IN  rpc' = IF err # "nil"
                  THEN [rpc EXCEPT ![c].pc = "done", ![c].code = ErrorCode(err)]
                  ELSE [rpc EXCEPT
                          ![c].resp = storeToProto(todos[req.todo_id]),
                          ![c].pc = IF req.idempotency_key # "" THEN "record" ELSE "done"]
    /\ UNCHANGED <<todos, idem, clock, faults, ncalls, applied, recorded, lost, pipeVars>>

\* "if req.IdempotencyKey != "" { s.store.StoreIdempotencyKey(...) }"
ServerRecord(c) ==
    /\ rpc[c].pc = "record"
    /\ LET key == rpc[c].req.idempotency_key
       IN  /\ idem' = StoreIdempotencyKey(idem, key, rpc[c].resp, clock + 1)
           /\ clock' = IF idem' # idem THEN clock + 1 ELSE clock
           /\ recorded' = IF \E r \in idem : r.key = key
                          THEN recorded
                          ELSE [recorded EXCEPT ![key] = rpc[c].resp]
    /\ rpc' = [rpc EXCEPT ![c].pc = "done", ![c].wrote = TRUE]
    /\ UNCHANGED <<todos, faults, ncalls, applied, lost, pipeVars>>

\* A failing database call (connection lost, context cancelled): a failed
\* store statement ends the call with Internal; a failed record write is logged
\* or ignored and the call still returns its response.
ServerDbError(c) ==
    /\ faults < MaxFaults
    /\ rpc[c].pc \in {"mutate", "record"}
    /\ faults' = faults + 1
    /\ rpc' = IF rpc[c].pc = "record"
              THEN [rpc EXCEPT ![c].pc = "done"]
              ELSE [rpc EXCEPT ![c].pc = "done", ![c].code = "Internal",
                               ![c].resp = NoTodo]
    /\ UNCHANGED <<todos, idem, clock, ncalls, applied, recorded, lost, pipeVars>>

\* The server process dies: every call in progress ends at its client with
\* Unavailable; the tables keep what was committed.
DomainCrash ==
    /\ faults < MaxFaults
    /\ \E c \in Clients : rpc[c].pc \notin {"idle", "done"}
    /\ faults' = faults + 1
    /\ lost' = lost \cup {rpc[c].req.idempotency_key :
                              c \in {d \in Clients : /\ rpc[d].pc \in {"readback", "record"}
                                                     /\ rpc[d].rows > 0}}
    /\ rpc' = [c \in Clients |->
                 IF rpc[c].pc \in {"idle", "done"} THEN rpc[c]
                 ELSE [rpc[c] EXCEPT !.pc = "done", !.code = "Unavailable",
                                     !.resp = NoTodo]]
    /\ UNCHANGED <<todos, idem, clock, ncalls, applied, recorded, pipeVars>>

----------------------------------------------------------------------------
(* Direct gRPC clients: any request, on either connection *)

MutatingOps == {"create", "complete", "delete", "edit"}

Req(u, i, t, d, k) ==
    [user_id |-> u, todo_id |-> i, title |-> t, description |-> d, idempotency_key |-> k]

\* The requests of the clients. Well-formed ones: the owner of the stored todo
\* with existing and missing ids and every key, and a second user who reuses
\* the first key. Ones missing a required field: the title of a create, the
\* user_id of a delete, the todo_id of a complete or an edit.
Requests(op) ==
    LET Callers == {<<User1, i, k>> : i \in {1, 2}, k \in AllKeys}
                       \cup {<<User2, 1, Key1>>}
        ValidRequests ==
            CASE op = "create" ->
                    {Req(a[1], 0, Str.buy_milk, EmptyStr, a[3]) : a \in Callers}
              [] op = "edit" ->
                    {Req(a[1], a[2], Str.eggs, Str.2pct, a[3]) : a \in Callers}
              [] OTHER ->
                    {Req(a[1], a[2], EmptyStr, EmptyStr, a[3]) : a \in Callers}
        InvalidRequests ==
            CASE op = "create" ->
                    {Req(User1, 0, EmptyStr, EmptyStr, Key1)}
              [] op = "delete" ->
                    {Req("", 1, Str.eggs, EmptyStr, Key1)}
              [] OTHER ->
                    {Req(User1, 0, Str.eggs, EmptyStr, Key1)}
    IN  ValidRequests \cup InvalidRequests

\* A client issues its next call once the previous one has returned.
ClientCall(c) ==
    /\ ncalls < MaxCalls
    /\ rpc[c].pc \in {"idle", "done"}
    /\ \E op \in MutatingOps : \E req \in Requests(op) :
       \E dbok \in DbOutcomes(LooksUp(op, req)) :
          /\ rpc' = [rpc EXCEPT ![c] = Invoke(op, req, dbok)]
          /\ faults' = IF dbok THEN faults ELSE faults + 1
    /\ ncalls' = ncalls + 1
    /\ UNCHANGED <<todos, idem, clock, applied, recorded, lost, pipeVars>>

----------------------------------------------------------------------------
(* Text functions of the Go runtime and of the command service *)

Digits == <<"0","1","2","3","4","5","6","7","8","9">>

\* fmt's %d of a non-negative integer
RECURSIVE Itoa(_)
Itoa(n) ==
    IF n < 10 THEN <<Digits[n + 1]>>
    ELSE Itoa(n \div 10) \o <<Digits[(n % 10) + 1]>>

RECURSIVE DigitsVal(_)
DigitsVal(s) ==
    IF s = <<>> THEN 0
    ELSE 10 * DigitsVal(SubSeq(s, 1, Len(s) - 1))
         + (CHOOSE i \in DOMAIN Digits : Digits[i] = s[Len(s)]) - 1

\* strconv.ParseInt(s, 10, 64): an optional sign, then decimal digits only
ParseInt(s) ==
    LET signed == s # <<>> /\ s[1] \in {"+", "-"}
        body   == IF signed THEN Tail(s) ELSE s
        IsDigit(ch) == \E i \in DOMAIN Digits : Digits[i] = ch
    IN  IF body = <<>> \/ \E i \in DOMAIN body : ~IsDigit(body[i])
        THEN [ok |-> FALSE, val |-> 0]
        ELSE [ok |-> TRUE,
              val |-> IF signed /\ s[1] = "-" THEN 0 - DigitsVal(body)
                      ELSE DigitsVal(body)]

IsSpace(ch) == ch \in {" ", "\t", "\n", "\r", "\f"}

RECURSIVE TrimLeft(_)
TrimLeft(s) == IF s # <<>> /\ IsSpace(s[1]) THEN TrimLeft(Tail(s)) ELSE s

RECURSIVE TrimRight(_)
TrimRight(s) ==
    IF s # <<>> /\ IsSpace(s[Len(s)]) THEN TrimRight(SubSeq(s, 1, Len(s) - 1)) ELSE s

\* strings.TrimSpace
TrimSpace(s) == TrimRight(TrimLeft(s))

\* A byte outside ASCII is written as its two hex digits; these continue a rune.
IsContinuation(ch) == ch \in {"9C", "93", "97"}

\* The byte offsets "for i := range s" visits: the first byte of every rune.
RECURSIVE RuneStarts(_, _)
RuneStarts(s, i) ==
    IF i > Len(s) THEN {}
    ELSE LET w == IF /\ s[i] = "E2" /\ i + 2 <= Len(s)
                     /\ IsContinuation(s[i + 1]) /\ IsContinuation(s[i + 2])
                  THEN 3 ELSE 1
         IN  {i} \cup RuneStarts(s, i + w)

\* toLower: b[i] is assigned at rune starts only; the other bytes stay zero.
toLower(s) ==
    LET Upper == <<"A","B","C","D","E","F","G","H","I","J","K","L","M",
                   "N","O","P","Q","R","S","T","U","V","W","X","Y","Z">>
        Lower == <<"a","b","c","d","e","f","g","h","i","j","k","l","m",
                   "n","o","p","q","r","s","t","u","v","w","x","y","z">>
    IN
    [i \in DOMAIN s |->
        IF i \in RuneStarts(s, 1)
        THEN IF \E j \in DOMAIN Upper : Upper[j] = s[i]
             THEN Lower[CHOOSE j \in DOMAIN Upper : Upper[j] = s[i]]
             ELSE s[i]
        ELSE "00"]

contains(s, substr) ==
    \E i \in 0..(Len(s) - Len(substr)) : SubSeq(s, i + 1, i + Len(substr)) = substr

containsIgnoreCase(s, substr) == contains(toLower(s), toLower(substr))

----------------------------------------------------------------------------
(* Message bodies on the queues *)

TextFields == {"user_id", "command_text", "message_sid", "idempotency_key"}

\* The zero value of each field of consumer.TextMessage
TextZero(f) == IF f = "command_text" THEN EmptyStr ELSE ""

ZeroMsg == [f \in TextFields |-> TextZero(f)]

\* json.Marshal of a message struct: a JSON object with every field (no omitempty)
JsonMarshalMsg(msg) == [kind |-> "object", fields |-> msg]

\* json.Unmarshal(delivery.Body, &msg): an error unless the body is a JSON
\* object; fields the object lacks keep their zero value.
JsonUnmarshalMsg(body) ==
    IF body.kind # "object"
    THEN [ok |-> FALSE, msg |-> ZeroMsg]
    ELSE [ok |-> TRUE,
          msg |-> [f \in TextFields |->
                     IF f \in DOMAIN body.fields THEN body.fields[f] ELSE TextZero(f)]]

NoBody == [kind |-> "none", fields |-> ZeroMsg]

\* Bodies that producers other than ingress-svc put on text.commands: bytes
\* that are no JSON, and an object that carries only a command text.
ForeignBodies ==
    {[kind |-> "text", fields |-> [raw |-> Str.milk]],
     [kind |-> "object", fields |-> [command_text |-> Str.buy_milk]]}

----------------------------------------------------------------------------
(* ingress-svc: handler/webhook.go, publisher *)

Ingresses == {"i1", "i2"}

\* The configured Twilio auth token of each instance: i2 runs without one.
twilioAuthToken(i) == IF i = "i1" THEN "token" ELSE ""

Event(meth, from, body, sid, numMedia, mediaURL, sig) ==
    [method |-> meth, formOK |-> TRUE, From |-> from, Body |-> body, MessageSid |-> sid,
     NumMedia |-> numMedia, MediaUrl0 |-> mediaURL, signatureValid |-> sig]

SM1Event == Event("POST", User1, Str.buy_milk, "SM1", "0", "", TRUE)

\* The request that becomes the second text command of the model.
SM2Event == Event("POST", User1, Str.sp_done_milk_sp, "SM2", "", "", TRUE)

\* The requests that end as a message on text.commands.
TextEvents == {SM1Event, SM2Event}

\* The webhook requests of the model.
Events ==
    {SM1Event, SM2Event,
     Event("POST", User1, Str.buy_milk, "SM2", "1", "https://media/1", TRUE),
     Event("POST", User1, EmptyStr, "SM2", "2", "https://media/1", TRUE),
     Event("POST", User1, Str.buy_milk, "SM2", "0", "https://media/1", TRUE),
     Event("POST", User1, Str.buy_milk, "SM2", "1", "", TRUE),
     Event("POST", User1, EmptyStr, "SM2", "0", "", TRUE),
     Event("POST", User1, Str.blank, "SM2", "0", "", TRUE),
     Event("GET", User1, Str.buy_milk, "SM1", "0", "", TRUE),
     Event("POST", "", Str.buy_milk, "SM1", "0", "", FALSE),
     Event("POST", User1, Str.buy_milk, "", "0", "", TRUE),
     Event("POST", User1, Str.buy_milk, "SM1", "0", "", FALSE),
     [SM1Event EXCEPT !.formOK = FALSE]}

\* (mutant) the signature is not checked
Route_NoSignatureCheck(i, ev) ==
    LET reject(st) == [status |-> st, queue |-> "none", body |-> NoBody]
    IN  IF ev.method # "POST" THEN reject(405)
        ELSE IF ~ev.formOK THEN reject(400)
        ELSE IF ev.From = "" \/ ev.MessageSid = "" THEN reject(400)
        ELSE LET idemKey == GenerateKey(ev.MessageSid)
             IN  IF ev.NumMedia # "" /\ ev.NumMedia # "0" /\ ev.MediaUrl0 # ""
                 THEN [status |-> 200, queue |-> "audio.processing",
                       body |-> JsonMarshalMsg([user_id |-> ev.From,
                                   media_url |-> ev.MediaUrl0,
                                   message_sid |-> ev.MessageSid,
                                   idempotency_key |-> idemKey])]
                 ELSE IF ev.Body # EmptyStr
                 THEN [status |-> 200, queue |-> "text.commands",
                       body |-> JsonMarshalMsg([user_id |-> ev.From,
                                   command_text |-> TrimSpace(ev.Body),
                                   message_sid |-> ev.MessageSid,
                                   idempotency_key |-> idemKey])]
                 ELSE reject(400)

\* (mutant) a request with a body is a text command, whatever else it carries
Route_BodyFirst(i, ev) ==
    LET reject(st) == [status |-> st, queue |-> "none", body |-> NoBody]
    IN  IF ev.method # "POST" THEN reject(405)
        ELSE IF ~ev.formOK THEN reject(400)
        ELSE IF ev.From = "" \/ ev.MessageSid = "" THEN reject(400)
        ELSE IF twilioAuthToken(i) # "" /\ ~ev.signatureValid THEN reject(403)
        ELSE LET idemKey == GenerateKey(ev.MessageSid)
             IN  IF ev.Body # EmptyStr
                 THEN [status |-> 200, queue |-> "text.commands",
                       body |-> [kind |-> "object",
                                 fields |-> [user_id |-> ev.From,
                                             command_text |-> TrimSpace(ev.Body),
                                             message_sid |-> ev.MessageSid,
                                             idempotency_key |-> idemKey]]]
                 ELSE IF ev.NumMedia # "" /\ ev.NumMedia # "0" /\ ev.MediaUrl0 # ""
                 THEN [status |-> 200, queue |-> "audio.processing",
                       body |-> [kind |-> "object",
                                 fields |-> [user_id |-> ev.From,
                                             media_url |-> ev.MediaUrl0,
                                             message_sid |-> ev.MessageSid,
                                             idempotency_key |-> idemKey]]]
                 ELSE reject(400)

handleAudioMessage(from, mediaURL, messageSid, idemKey) ==
    [user_id |-> from, media_url |-> mediaURL, message_sid |-> messageSid,
     idempotency_key |-> idemKey]

\* (mutant) the body goes into the envelope as it came
handleTextMessage_Raw(from, body, messageSid, idemKey) ==
    [user_id |-> from, command_text |-> body, message_sid |-> messageSid,
     idempotency_key |-> idemKey]

\* (mutant) the envelope is built without the generated key
handleTextMessage_NoKey(from, body, messageSid, idemKey) ==
    [user_id |-> from, command_text |-> TrimSpace(body), message_sid |-> messageSid,
     idempotency_key |-> ""]

handleTextMessage(from, body, messageSid, idemKey) ==
    [user_id |-> from, command_text |-> TrimSpace(body), message_sid |-> messageSid,
     idempotency_key |-> idemKey]

\* HandleSMS up to its publish: the status it answers when nothing fails later,
\* the queue it publishes to and the body it publishes.
Route(i, ev) ==
    LET reject(st) == [status |-> st, queue |-> "none", body |-> NoBody]
    IN  IF ev.method # "POST" THEN reject(405)
        ELSE IF ~ev.formOK THEN reject(400)
        ELSE IF ev.From = "" \/ ev.MessageSid = "" THEN reject(400)
        ELSE IF twilioAuthToken(i) # "" /\ ~ev.signatureValid THEN reject(403)
        ELSE LET idemKey == GenerateKey(ev.MessageSid)
             IN  IF ev.NumMedia # "" /\ ev.NumMedia # "0" /\ ev.MediaUrl0 # ""
                 THEN [status |-> 200, queue |-> "audio.processing",
                       body |-> JsonMarshalMsg(handleAudioMessage(
                                   ev.From, ev.MediaUrl0, ev.MessageSid, idemKey))]
                 ELSE IF ev.Body # EmptyStr
                 THEN [status |-> 200, queue |-> "text.commands",
                       body |-> JsonMarshalMsg(handleTextMessage(
                                   ev.From, ev.Body, ev.MessageSid, idemKey))]
                 ELSE reject(400)

\* (mutant) the publish error is logged and the request answered as usual
statusAfterPublish_IgnoreError(r, pubok) == r.status

\* "if err := h.handle...Message(...); err != nil { http.Error(w, "Internal
\* server error", http.StatusInternalServerError); return }"
statusAfterPublish(r, pubok) == IF pubok THEN r.status ELSE 500

\* The outcomes of a broker publish that the failure budget allows.
PublishOutcomes(attempted) ==
    IF attempted /\ faults < MaxFaults THEN {TRUE, FALSE} ELSE {TRUE}

Msgs == 1..MaxMsgs

NoHist == [origin |-> "none", body |-> NoBody,
           deliver |-> 0, handler |-> 0, ack |-> 0, requeue |-> 0, drop |-> 0]

\* The id the broker gives the next message published to text.commands.
NextId == 1 + Cardinality({m \in Msgs : hist[m].origin # "none"})

\* History counters stop counting at MaxCount.
Bump(n) == IF n < MaxCount THEN n + 1 ELSE n

\* Messages published so far, on either queue.
Published == Cardinality({m \in Msgs : hist[m].origin # "none"}) + Len(audioq)

\* WebhookHandler.HandleSMS, with Publisher.publish, for a request of evs
HandleSMS(i, evs) ==
    /\ \E ev \in evs :
         LET r == Route(i, ev)
         IN  \E pubok \in PublishOutcomes(r.queue # "none") :
               /\ r.queue = "none" \/ Published < MaxMsgs
               /\ http' = [status |-> statusAfterPublish(r, pubok), ev |-> ev,
                           by |-> i, seq |-> 1 - http.seq]
               /\ faults' = IF pubok THEN faults ELSE faults + 1
               /\ textq' = IF pubok /\ r.queue = "text.commands"
                           THEN Append(textq, [id |-> NextId, body |-> r.body])
                           ELSE textq
               /\ hist' = IF pubok /\ r.queue = "text.commands"
                          THEN [hist EXCEPT ![NextId] =
                                   [NoHist EXCEPT !.origin = i, !.body = r.body]]
                          ELSE hist
               /\ audioq' = IF pubok /\ r.queue = "audio.processing"
                            THEN Append(audioq, r.body)
                            ELSE audioq
               /\ scenarioSM1' = (scenarioSM1 /\ ev = SM1Event)
    /\ UNCHANGED <<todos, idem, clock, rpc, applied, recorded, lost, ncalls,
                   up, ctx, msgs, replies, con, llm, handled, cut>>

\* Another producer publishes to text.commands.
ForeignPublish ==
    /\ Published < MaxMsgs
    /\ \E body \in ForeignBodies :
         /\ textq' = Append(textq, [id |-> NextId, body |-> body])
         /\ hist' = [hist EXCEPT ![NextId] =
                        [NoHist EXCEPT !.origin = "foreign", !.body = body]]
    /\ scenarioSM1' = FALSE
    /\ UNCHANGED <<domVars, ncalls, up, ctx, msgs, audioq, replies, con, http, llm,
                   handled, cut>>

----------------------------------------------------------------------------
(* todo-domain-svc: ListTodos *)

RECURSIVE OrderByCreatedAtDesc(_, _)
OrderByCreatedAtDesc(tbl, ids) ==
    IF ids = {} THEN <<>>
    ELSE LET i == CHOOSE x \in ids :
                     \A y \in ids : tbl[x].created_at >= tbl[y].created_at
         IN  <<tbl[i]>> \o OrderByCreatedAtDesc(tbl, ids \ {i})

\* (mutant) without a status the SELECT has no condition on status
SqlSelectTodos_AnyStatus(tbl, userID, status) ==
    OrderByCreatedAtDesc(tbl,
        {i \in DOMAIN tbl :
            /\ tbl[i].user_id = userID
            /\ status # "" => tbl[i].status = status})

\* Store.ListTodos: SELECT ... WHERE user_id = $1 AND status = $2 (or, without a
\* status, status != 'deleted') ORDER BY created_at DESC
SqlSelectTodos(tbl, userID, status) ==
    OrderByCreatedAtDesc(tbl,
        {i \in DOMAIN tbl :
            /\ tbl[i].user_id = userID
            /\ IF status # "" THEN tbl[i].status = status
                              ELSE tbl[i].status # "deleted"})

\* Server.ListTodos
ServerListTodos(tbl, userID, status) ==
    IF userID = ""
    THEN [code |-> "InvalidArgument", todos |-> <<>>]
    ELSE LET statusFilter ==
                 CASE status = "TODO_STATUS_ACTIVE" -> "active"
                   [] status = "TODO_STATUS_COMPLETED" -> "completed"
                   [] status = "TODO_STATUS_DELETED" -> "deleted"
                   [] OTHER -> ""
             rows == SqlSelectTodos(tbl, userID, statusFilter)
         IN  [code |-> "OK", todos |-> [i \in DOMAIN rows |-> storeToProto(rows[i])]]

----------------------------------------------------------------------------
(* command-svc: the classifier, the dispatcher (Handler) and its domain client *)

Cmd(action, parameters, confidence, explanation) ==
    [action |-> action, parameters |-> parameters,
     confidence |-> confidence, explanation |-> explanation]

\* cmd.Parameters[name]: a missing key reads as ""
Param(cmd, name) ==
    IF name \in DOMAIN cmd.parameters THEN cmd.parameters[name] ELSE EmptyStr

\* Confidence is kept in hundredths.
lowConfidenceThreshold == 85

\* The classifier's answers of the model, by name.
Answer ==
    [Create |-> Cmd("create", [title |-> Str.buy_milk], 95, EmptyStr),
     CompleteId |-> Cmd("complete", [todo_id |-> Str.one], 95, EmptyStr),
     CompleteHint |-> Cmd("complete", [title_hint |-> Str.milk], 80, Str.not_sure),
     DeleteHint |-> Cmd("delete", [title_hint |-> Str.milk], 95, EmptyStr),
     EditId |-> Cmd("edit", [todo_id |-> Str.one, new_title |-> Str.eggs], 95, EmptyStr),
     EditHint |-> Cmd("edit", [title_hint |-> Str.milk, new_title |-> Str.eggs],
                      95, EmptyStr),
     List |-> Cmd("list", [filter |-> Str.all], 95, EmptyStr),
     Nudge |-> Cmd("nudge", [suggested_action |-> Str.stretch, task_context |-> Str.run],
                   95, EmptyStr),
     \* an action outside the closed set
     Snooze |-> Cmd("snooze", [todo_id |-> Str.one], 95, EmptyStr),
     \* ParseCommand's answer when the LLM's content is no valid JSON
     NotJSON |-> Cmd("unclear", [reason |-> Str.bad_json, raw |-> Str.milk], 0,
                     Str.not_json)]

\* Answers that name no target, or name it by a mark instead of a word.
Vague ==
    [CreateNoTitle |-> Cmd("create", [description |-> Str.eggs], 95, EmptyStr),
     \* a todo_id that is no number, and no title_hint
     CompleteNoTarget |-> Cmd("complete", [todo_id |-> Str.milk], 95, EmptyStr),
     DeleteNoTarget |-> Cmd("delete", [reason |-> Str.not_sure], 95, EmptyStr),
     EditNoTarget |-> Cmd("edit", [new_title |-> Str.eggs], 95, EmptyStr),
     DeleteTick |-> Cmd("delete", [title_hint |-> Str.tick], 95, EmptyStr)]

NoCmd == Cmd("", [reason |-> EmptyStr], 0, EmptyStr)

\* The classifiers of the model: each answers one command, whatever the text
\* and however often it is asked.
Classifiers == {{Answer[k]} : k \in DOMAIN Answer}

\* time.Parse(time.RFC3339, s) succeeds, for the date texts of the model.
ParsesRFC3339(s) == s = Str.date

\* The first step executeCommand takes for a command: a reply without any
\* domain call, an error, a mutating call, a title lookup before a mutating
\* call, or a listing.
NoPlan ==
    [kind |-> "reply", op |-> "none", req |-> NoReq, hint |-> EmptyStr,
     text |-> EmptyStr, filter |-> "", dated |-> FALSE]

ReplyPlan(text) == [NoPlan EXCEPT !.text = text]

handleCreate(userID, idempotencyKey, cmd) ==
    LET title == Param(cmd, "title")
        description == Param(cmd, "description")
    IN  IF title = EmptyStr
        THEN ReplyPlan(Msg.NoTitle)
        ELSE [NoPlan EXCEPT !.kind = "call", !.op = "create",
                            !.req = Req(userID, 0, title, description, idempotencyKey)]

\* The part handleComplete, handleDelete and handleEdit share: the target by
\* todo_id when it parses, else by title_hint, else a question.
ByIdOrHint(op, userID, idempotencyKey, cmd, title, description, question) ==
    LET idStr == Param(cmd, "todo_id")
        hint  == Param(cmd, "title_hint")
    IN  IF idStr # EmptyStr /\ ParseInt(idStr).ok
        THEN [NoPlan EXCEPT !.kind = "call", !.op = op,
                  !.req = Req(userID, ParseInt(idStr).val, title, description,
                              idempotencyKey)]
        ELSE IF hint # EmptyStr
        THEN [NoPlan EXCEPT !.kind = "find", !.op = op, !.hint = hint,
                  !.filter = "TODO_STATUS_ACTIVE",
                  !.req = Req(userID, 0, title, description, idempotencyKey)]
        ELSE ReplyPlan(question)

handleComplete(userID, idempotencyKey, cmd) ==
    ByIdOrHint("complete", userID, idempotencyKey, cmd, EmptyStr, EmptyStr,
               Msg.WhichComplete)

handleDelete(userID, idempotencyKey, cmd) ==
    ByIdOrHint("delete", userID, idempotencyKey, cmd, EmptyStr, EmptyStr,
               Msg.WhichDelete)

handleEdit(userID, idempotencyKey, cmd) ==
    LET newTitle == Param(cmd, "new_title")
        newDescription == Param(cmd, "new_description")
    IN  IF newTitle = EmptyStr /\ newDescription = EmptyStr
        THEN ReplyPlan(Msg.ChangeTo)
        ELSE ByIdOrHint("edit", userID, idempotencyKey, cmd, newTitle, newDescription,
                        Msg.WhichEdit)

handleList(userID, cmd) ==
    LET filterParam == Param(cmd, "filter")
        status == CASE filterParam = Str.completed -> "TODO_STATUS_COMPLETED"
                    [] filterParam = Str.all -> "TODO_STATUS_UNSPECIFIED"
                    [] OTHER -> "TODO_STATUS_ACTIVE"
        dated == \/ ParsesRFC3339(Param(cmd, "completed_after"))
                 \/ ParsesRFC3339(Param(cmd, "completed_before"))
    IN  [NoPlan EXCEPT !.kind = "list", !.op = "list", !.filter = status,
                       !.dated = dated,
                       !.req = Req(userID, 0, EmptyStr, EmptyStr, "")]

handleNudge(cmd) ==
    LET suggestedAction == Param(cmd, "suggested_action")
        taskContext == Param(cmd, "task_context")
    IN  IF suggestedAction = EmptyStr THEN ReplyPlan(Msg.NudgeUnsure)
        ELSE IF taskContext # EmptyStr
        THEN ReplyPlan(Msg.For \o taskContext \o Msg.Colon \o suggestedAction)
        ELSE ReplyPlan(suggestedAction)

\* (mutant) an unclear intent is returned as an error
handleUnclear_Error(cmd) == [NoPlan EXCEPT !.kind = "error"]

handleUnclear(cmd) ==
    LET reason == Param(cmd, "reason")
    IN  IF reason # EmptyStr THEN ReplyPlan(Msg.Unclear \o reason)
        ELSE ReplyPlan(Msg.UnclearDefault)

\* (mutant) the complete intent is handed to the delete handler
executeCommand_CompleteDeletes(userID, idempotencyKey, cmd) ==
    CASE cmd.action = "create" -> handleCreate(userID, idempotencyKey, cmd)
      [] cmd.action = "complete" -> handleDelete(userID, idempotencyKey, cmd)
      [] cmd.action = "list" -> handleList(userID, cmd)
      [] cmd.action = "delete" -> handleDelete(userID, idempotencyKey, cmd)
      [] cmd.action = "edit" -> handleEdit(userID, idempotencyKey, cmd)
      [] cmd.action = "nudge" -> handleNudge(cmd)
      [] cmd.action = "unclear" -> handleUnclear(cmd)
      [] OTHER -> [NoPlan EXCEPT !.kind = "error"]

executeCommand(userID, idempotencyKey, cmd) ==
    CASE cmd.action = "create" -> handleCreate(userID, idempotencyKey, cmd)
      [] cmd.action = "complete" -> handleComplete(userID, idempotencyKey, cmd)
      [] cmd.action = "list" -> handleList(userID, cmd)
      [] cmd.action = "delete" -> handleDelete(userID, idempotencyKey, cmd)
      [] cmd.action = "edit" -> handleEdit(userID, idempotencyKey, cmd)
      [] cmd.action = "nudge" -> handleNudge(cmd)
      [] cmd.action = "unclear" -> handleUnclear(cmd)
      [] OTHER -> [NoPlan EXCEPT !.kind = "error"]

\* Client.FindTodoByTitle on the listing it fetched: the first todo whose title
\* contains the hint, or nil.
FindTodoByTitle(list, titleHint) ==
    LET hits == {i \in DOMAIN list : containsIgnoreCase(list[i].title, titleHint)}
    IN  IF hits = {} THEN [found |-> FALSE, todo |-> NoTodo]
        ELSE [found |-> TRUE,
              todo |-> list[CHOOSE i \in hits : \A j \in hits : i <= j]]

\* The request of the mutating call that follows a title lookup; an edit keeps
\* the found title or description where the command gave none.
ResolvedReq(plan, todo) ==
    IF plan.op = "edit"
    THEN [plan.req EXCEPT
            !.todo_id = todo.id,
            !.title = IF plan.req.title = EmptyStr THEN todo.title ELSE @,
            !.description = IF plan.req.description = EmptyStr
                            THEN todo.description ELSE @]
    ELSE [plan.req EXCEPT !.todo_id = todo.id]

\* The fmt.Sprintf each handler makes from the todo its call returned.
ReplyFor(op, todo) ==
    CASE op = "create" -> Msg.Added \o Itoa(todo.id) \o Msg.Colon \o todo.title
      [] op = "complete" ->
            Msg.Completed \o Itoa(todo.id) \o Msg.Colon \o todo.title \o Msg.Check
      [] op = "delete" -> Msg.Deleted \o Itoa(todo.id) \o Msg.Colon \o todo.title
      [] op = "edit" -> Msg.Updated \o Itoa(todo.id) \o Msg.Colon \o todo.title

RECURSIVE ListLines(_)
ListLines(list) ==
    IF list = <<>> THEN EmptyStr
    ELSE Msg.Hash \o Itoa(list[1].id) \o Msg.Colon \o list[1].title
            \o (IF list[1].status = "TODO_STATUS_COMPLETED" THEN Msg.Check ELSE EmptyStr)
            \o Msg.Newline \o ListLines(Tail(list))

\* handleList's reply for the listing it fetched
ListReply(list, dated) ==
    IF list = <<>>
    THEN IF dated THEN Msg.NoneInRange ELSE Msg.EmptyList
    ELSE Msg.YourTodos \o ListLines(list)

\* Handle: "if cmd.Confidence < lowConfidenceThreshold && cmd.Explanation != """
WithNote(cmd, result) ==
    IF cmd.confidence < lowConfidenceThreshold /\ cmd.explanation # EmptyStr
    THEN result \o Msg.NotePre \o cmd.explanation \o Msg.NotePost
    ELSE result

----------------------------------------------------------------------------
(* command-svc: consumer/consumer.go (Consumer.Start) and Handler.Handle *)

IdleCon == [pc |-> "waiting", m |-> 0, body |-> NoBody, msg |-> ZeroMsg,
            cmd |-> NoCmd, plan |-> NoPlan, found |-> NoTodo, result |-> EmptyStr,
            parsed |-> FALSE, herr |-> FALSE, code |-> "OK", nsettle |-> 0,
            disp |-> "none", sig |-> FALSE]

\* Deliveries instance c holds unacknowledged: those in its channel and the
\* one its loop has taken and not yet acked or rejected.
Unacked(c) == Len(msgs[c]) + (IF con[c].pc # "waiting" THEN 1 ELSE 0)

\* "ch.Qos(1, 0, false)": the prefetch count of the channel.
prefetchCount == 1

\* (mutant) no prefetch limit is set on the channel
CanDeliver_NoQos(c) == TRUE

\* The broker sends a consumer a message only while it holds fewer than
\* prefetchCount unacknowledged deliveries.
CanDeliver(c) == Unacked(c) < prefetchCount

\* The broker sends the head of text.commands to a consuming instance: the
\* delivery enters the channel Consume returned.
Deliver(c) ==
    /\ c \in up
    /\ CanDeliver(c)
    /\ textq # <<>>
    /\ msgs' = [msgs EXCEPT ![c] = Append(@, Head(textq))]
    /\ textq' = Tail(textq)
    /\ UNCHANGED <<domVars, ncalls, up, ctx, audioq, replies, con, http, llm, hist,
                   handled, cut, scenarioSM1>>

\* "case delivery, ok := <-msgs": the loop, at its select, takes the oldest
\* delivery of its channel.
Receive(c) ==
    /\ c \in up
    /\ con[c].pc = "waiting"
    /\ msgs[c] # <<>>
    /\ LET d == Head(msgs[c])
       IN  /\ con' = [con EXCEPT ![c] =
                         [IdleCon EXCEPT !.pc = "received", !.m = d.id, !.body = d.body]]
           /\ hist' = [hist EXCEPT ![d.id].deliver = Bump(@)]
    /\ msgs' = [msgs EXCEPT ![c] = Tail(@)]
    /\ UNCHANGED <<domVars, ncalls, up, ctx, textq, audioq, replies, http, llm,
                   handled, cut, scenarioSM1>>

\* (mutant) a body that does not decode is put back on the queue
AfterUnmarshal_Requeue(ok) == IF ok THEN "handle" ELSE "requeue"

\* "if err := json.Unmarshal(...); err != nil { delivery.Nack(false, false); continue }"
AfterUnmarshal(ok) == IF ok THEN "handle" ELSE "drop"

\* (mutant) the delivery is acknowledged whatever the handler returned
AfterHandler_AckOnError(herr) == "ack"

\* (mutant) a message that was requeued before is given up on its next failure
AfterHandler_GiveUp(herr) ==
    IF ~herr THEN "ack"
    ELSE IF \E c \in up : con[c].pc = "settle" /\ hist[con[c].m].requeue >= 1
    THEN "drop"
    ELSE "requeue"

\* (mutant) a failed delivery is rejected without requeue
AfterHandler_DropOnError(herr) == IF herr THEN "drop" ELSE "ack"

\* "if err := handler(ctx, &msg); err != nil { delivery.Nack(false, true); continue }
\*  delivery.Ack(false)"
AfterHandler(herr) == IF herr THEN "requeue" ELSE "ack"

\* The consumer's state after delivery.Ack / delivery.Nack: back at the select.
Settled(r, disp) ==
    [IdleCon EXCEPT !.m = r.m, !.parsed = r.parsed, !.herr = r.herr, !.code = r.code,
                    !.nsettle = r.nsettle + 1, !.disp = disp]

\* (mutant) the broker does not put a requeued message back
QueueAfter_NoRedelivery(q, r, disp) == q

\* The broker's side of Ack(false), Nack(false, true) and Nack(false, false):
\* only a requeue puts the message back, at the position it was taken from.
QueueAfter(q, r, disp) ==
    IF disp = "requeue" THEN <<[id |-> r.m, body |-> r.body]>> \o q ELSE q

HistAfter(h, m, disp) ==
    CASE disp = "ack" -> [h EXCEPT ![m].ack = Bump(@)]
      [] disp = "requeue" -> [h EXCEPT ![m].requeue = Bump(@)]
      [] disp = "drop" -> [h EXCEPT ![m].drop = Bump(@)]

\* json.Unmarshal of the delivery; on success the handler is entered and calls
\* the classifier.
ConsumerParse(c) ==
    /\ c \in up
    /\ con[c].pc = "received"
    /\ LET dec  == JsonUnmarshalMsg(con[c].body)
           next == AfterUnmarshal(dec.ok)
       IN  IF next = "handle"
           THEN /\ con' = [con EXCEPT ![c].pc = "ai", ![c].msg = dec.msg,
                                      ![c].parsed = TRUE]
                /\ hist' = [hist EXCEPT ![con[c].m].handler = Bump(@)]
                /\ textq' = textq
           ELSE /\ con' = [con EXCEPT ![c] = Settled(con[c], next)]
                /\ hist' = HistAfter(hist, con[c].m, next)
                /\ textq' = QueueAfter(textq, con[c], next)
    /\ UNCHANGED <<domVars, ncalls, up, ctx, msgs, audioq, replies, http, llm,
                   handled, cut, scenarioSM1>>

\* The record of a result executeCommand returned.
Handled(r, result) ==
    [m |-> r.m, n |-> hist[r.m].handler, cmd |-> r.cmd, reply |-> result]

\* ParseCommand fails (transport, API error, no choices): Handle returns the error.
HandlerClassifyFails(c) ==
    /\ c \in up
    /\ con[c].pc = "ai"
    /\ faults < MaxFaults
    /\ faults' = faults + 1
    /\ con' = [con EXCEPT ![c].pc = "settle", ![c].herr = TRUE]
    /\ UNCHANGED <<todos, idem, clock, rpc, applied, recorded, lost, ncalls,
                   up, ctx, msgs, textq, audioq, replies, http, llm, hist,
                   handled, cut, scenarioSM1>>

\* ParseCommand answers, and executeCommand runs up to its first domain call:
\* a listing is read here, a mutating call is entered here (through its key
\* lookup).
HandlerDispatch(c) ==
    /\ c \in up
    /\ con[c].pc = "ai"
    /\ ctx[c] = "live"
    /\ \E cmd \in llm :
         LET msg    == con[c].msg
             plan   == executeCommand(msg.user_id, msg.idempotency_key, cmd)
             usesDb == \/ plan.kind \in {"find", "list"} /\ msg.user_id # ""
                       \/ plan.kind = "call" /\ LooksUp(plan.op, plan.req)
         IN  \E dbok \in DbOutcomes(usesDb) :
               LET listing == ServerListTodos(todos, msg.user_id, plan.filter)
                   hit     == FindTodoByTitle(listing.todos, plan.hint)
                   r       == [con[c] EXCEPT !.cmd = cmd, !.plan = plan]
                   fail    == [r EXCEPT !.pc = "settle", !.herr = TRUE]
                   say(t)  == [r EXCEPT !.pc = "publish", !.result = WithNote(cmd, t)]
                   next    ==
                     CASE plan.kind = "reply" -> say(plan.text)
                       [] plan.kind = "error" -> fail
                       [] plan.kind = "call" -> [r EXCEPT !.pc = "rpc"]
                       [] plan.kind = "list" ->
                            IF ~dbok \/ listing.code # "OK" THEN fail
                            ELSE say(ListReply(listing.todos, plan.dated))
                       [] plan.kind = "find" ->
                            IF ~dbok \/ listing.code # "OK" THEN fail
                            ELSE IF ~hit.found
                            THEN say(Msg.NotFoundPre \o plan.hint \o Msg.Quote)
                            ELSE [r EXCEPT !.pc = "found", !.found = hit.todo]
               IN  /\ con' = [con EXCEPT ![c] = next]
                   /\ rpc' = IF plan.kind = "call"
                             THEN [rpc EXCEPT ![c] = Invoke(plan.op, plan.req, dbok)]
                             ELSE rpc
                   /\ faults' = IF dbok THEN faults ELSE faults + 1
                   /\ handled' = IF next.pc = "publish"
                                 THEN handled \cup {Handled(next, next.result)}
                                 ELSE handled
                   /\ scenarioSM1' = (scenarioSM1 /\ cmd = Answer.Create)
    /\ UNCHANGED <<todos, idem, clock, applied, recorded, lost, ncalls,
                   up, ctx, msgs, textq, audioq, replies, http, llm, hist, cut>>

\* The mutating call on the todo FindTodoByTitle returned.
HandlerResolve(c) ==
    /\ c \in up
    /\ con[c].pc = "found"
    /\ ctx[c] = "live"
    /\ LET req == ResolvedReq(con[c].plan, con[c].found)
       IN  \E dbok \in DbOutcomes(LooksUp(con[c].plan.op, req)) :
             /\ rpc' = [rpc EXCEPT ![c] = Invoke(con[c].plan.op, req, dbok)]
             /\ faults' = IF dbok THEN faults ELSE faults + 1
    /\ con' = [con EXCEPT ![c].pc = "rpc"]
    /\ UNCHANGED <<todos, idem, clock, applied, recorded, lost, ncalls,
                   up, ctx, msgs, textq, audioq, replies, http, llm, hist,
                   handled, cut, scenarioSM1>>

\* The domain call returns to the handler: an error is returned as it is, a
\* todo is formatted into the result.
HandlerRpcReturn(c) ==
    /\ c \in up
    /\ con[c].pc = "rpc"
    /\ rpc[c].pc = "done"
    /\ LET next == IF rpc[c].code # "OK"
                   THEN [con[c] EXCEPT !.pc = "settle", !.herr = TRUE,
                                       !.code = rpc[c].code]
                   ELSE [con[c] EXCEPT !.pc = "publish",
                            !.result = WithNote(con[c].cmd,
                                                ReplyFor(rpc[c].op, rpc[c].resp))]
       IN  /\ con' = [con EXCEPT ![c] = next]
           /\ handled' = IF next.pc = "publish"
                         THEN handled \cup {Handled(next, next.result)}
                         ELSE handled
    /\ rpc' = [rpc EXCEPT ![c] = IdleRpc]
    /\ UNCHANGED <<todos, idem, clock, faults, applied, recorded, lost, ncalls,
                   up, ctx, msgs, textq, audioq, replies, http, llm, hist,
                   cut, scenarioSM1>>

\* (mutant) Handle returns nil although PublishReply failed
HandlerPublish_ErrorIgnored(c) ==
    /\ c \in up
    /\ con[c].pc = "publish"
    /\ \E pubok \in PublishOutcomes(TRUE) :
         /\ replies' = IF pubok
                       THEN Append(replies, [user_id |-> con[c].msg.user_id,
                                             message |-> con[c].result])
                       ELSE replies
         /\ faults' = IF pubok THEN faults ELSE faults + 1
         /\ con' = [con EXCEPT ![c].pc = "settle", ![c].herr = FALSE]
    /\ UNCHANGED <<todos, idem, clock, rpc, applied, recorded, lost, ncalls,
                   up, ctx, msgs, textq, audioq, http, llm, hist, handled,
                   cut, scenarioSM1>>

\* Publisher.PublishReply, and Handle's return
HandlerPublish(c) ==
    /\ c \in up
    /\ con[c].pc = "publish"
    /\ \E pubok \in PublishOutcomes(TRUE) :
         /\ replies' = IF pubok
                       THEN Append(replies, [user_id |-> con[c].msg.user_id,
                                             message |-> con[c].result])
                       ELSE replies
         /\ faults' = IF pubok THEN faults ELSE faults + 1
         /\ con' = [con EXCEPT ![c].pc = "settle", ![c].herr = ~pubok]
    /\ UNCHANGED <<todos, idem, clock, rpc, applied, recorded, lost, ncalls,
                   up, ctx, msgs, textq, audioq, http, llm, hist, handled,
                   cut, scenarioSM1>>

\* main's signal goroutine: SIGINT or SIGTERM arrives and cancel() is called.
\* The context is the one Start passes to the handler and the handler to
\* ParseCommand and to the domain client. sig notes that the signal came
\* while a handler invocation was running.
Shutdown(c) ==
    /\ c \in up
    /\ ctx[c] = "live"
    /\ ctx' = [ctx EXCEPT ![c] = "cancelled"]
    \* the handler invocation of the loop has started and not returned
    /\ con' = [con EXCEPT ![c].sig = (con[c].pc \in {"ai", "found", "rpc", "publish"})]
    /\ UNCHANGED <<domVars, ncalls, up, msgs, textq, audioq, replies, http, llm,
                   hist, handled, cut, scenarioSM1>>

\* A call the handler makes with the cancelled context returns the context's
\* error: http.NewRequestWithContext(ctx, ...) in ParseCommand, the gRPC calls
\* of the domain client. Handle returns the error. A gRPC call that was
\* already sent goes on at the server. (PublishReply is not affected:
\* amqp091-go's PublishWithContext does not look at its context.)
HandlerCancelled(c) ==
    /\ c \in up
    /\ ctx[c] = "cancelled"
    /\ con[c].pc \in {"ai", "found", "rpc"}
    /\ con' = [con EXCEPT ![c].pc = "settle", ![c].herr = TRUE]
    /\ cut' = IF con[c].sig THEN cut \cup {con[c].m} ELSE cut
    /\ UNCHANGED <<domVars, ncalls, up, ctx, msgs, textq, audioq, replies, http, llm,
                   hist, handled, scenarioSM1>>

\* The cancellation reaches the server's context of the call: the database
\* call the server makes next (ExecContext, QueryRowContext) fails.
ServerCtxCancelled(c) ==
    /\ ctx[c] = "cancelled"
    /\ rpc[c].pc \in {"mutate", "record"}
    /\ rpc' = IF rpc[c].pc = "record"
              THEN [rpc EXCEPT ![c].pc = "done"]
              ELSE [rpc EXCEPT ![c].pc = "done", ![c].code = "Internal",
                               ![c].resp = NoTodo]
    /\ cut' = IF con[c].pc = "rpc" /\ con[c].sig THEN cut \cup {con[c].m} ELSE cut
    /\ UNCHANGED <<todos, idem, clock, faults, applied, recorded, lost, ncalls,
                   up, ctx, msgs, textq, audioq, replies, con, http, llm, hist,
                   handled, scenarioSM1>>

\* "case <-ctx.Done(): return ctx.Err()": Start returns, main returns and its
\* deferred cons.Close() closes the channel and the connection; the broker
\* puts the deliveries the instance had not acknowledged back on the queue.
LoopExit(c) ==
    /\ c \in up
    /\ ctx[c] = "cancelled"
    /\ con[c].pc = "waiting"
    /\ up' = up \ {c}
    /\ textq' = msgs[c] \o textq
    /\ msgs' = [msgs EXCEPT ![c] = <<>>]
    /\ UNCHANGED <<domVars, ncalls, ctx, audioq, replies, con, http, llm, hist,
                   handled, cut, scenarioSM1>>

\* The rest of the loop body once the handler has returned.
ConsumerSettle(c) ==
    /\ c \in up
    /\ con[c].pc = "settle"
    /\ LET disp == AfterHandler(con[c].herr)
       IN  /\ con' = [con EXCEPT ![c] = Settled(con[c], disp)]
           /\ hist' = HistAfter(hist, con[c].m, disp)
           /\ textq' = QueueAfter(textq, con[c], disp)
    /\ UNCHANGED <<domVars, ncalls, up, ctx, msgs, audioq, replies, http, llm,
                   handled, cut, scenarioSM1>>

----------------------------------------------------------------------------
(* Initial states and specifications *)

\* The store with one item, which User1 created earlier through a call
\* without a key.
InitialTables ==
    {SqlInsertTodo(<<>>, User1, Str.Milk_run, EmptyStr, 1)}

\* spent: the failures injected before the behaviour starts.
InitStoreSpent(tables, spent) ==
    /\ todos \in tables
    /\ idem = {}
    \* the time of the last statement that wrote the table
    /\ clock = IF todos = <<>> THEN 0
               ELSE CHOOSE t \in {todos[i].updated_at : i \in DOMAIN todos} :
                        \A i \in DOMAIN todos : todos[i].updated_at <= t
    /\ rpc = [c \in Clients |-> IdleRpc]
    /\ faults = spent
    /\ ncalls = 0
    /\ applied = [k \in AllKeys |-> 0]
    /\ recorded = [k \in AllKeys |-> NoTodo]
    /\ lost = {}

InitStore(tables) == InitStoreSpent(tables, 0)

InitQueues(instances) ==
    /\ up = instances
    /\ ctx = [c \in Clients |-> "live"]
    /\ msgs = [c \in Clients |-> <<>>]
    /\ cut = {}
    /\ textq = <<>>
    /\ audioq = <<>>
    /\ replies = <<>>
    /\ con = [c \in Clients |-> IdleCon]
    /\ http = [status |-> 0, ev |-> Event("", "", EmptyStr, "", "", "", FALSE),
               by |-> "none", seq |-> 0]
    /\ hist = [m \in Msgs |-> NoHist]
    /\ handled = {}
    /\ scenarioSM1 = (instances # {} /\ todos = <<>>)

\* The domain server alone, driven by direct gRPC clients.
Init == InitStore(InitialTables) /\ InitQueues({}) /\ llm = {Answer.Create}

ServerStep(c) ==
    \/ ServerMutate(c)
    \/ ServerReadBack(c)
    \/ ServerRecord(c)
    \/ ServerDbError(c)

NextDomain ==
    \/ \E c \in Clients : ClientCall(c)
    \/ \E c \in Clients : ServerStep(c)
    \/ DomainCrash

SpecDomain == Init /\ [][NextDomain]_vars

\* The domain server and its clients with no failure of the database or the
\* process.
InitCalls ==
    InitStoreSpent(InitialTables, MaxFaults) /\ InitQueues({}) /\ llm = {Answer.Create}

NextCalls ==
    \E c \in Clients :
        ClientCall(c) \/ ServerMutate(c) \/ ServerReadBack(c) \/ ServerRecord(c)

SpecCalls == InitCalls /\ [][NextCalls]_vars

\* The whole pipeline with two command-svc instances on the same queue, over
\* an empty store or the store with one item.
InitPipeline == 
    /\ InitStore({<<>>} \cup InitialTables)
    /\ InitQueues(Clients)
    /\ llm \in Classifiers

\* The pipeline with a single command-svc instance: handlings follow one
\* another.
InitDispatch == 
    /\ InitStore({<<>>} \cup InitialTables)
    /\ InitQueues({"c1"})
    /\ llm \in Classifiers

ConsumerStep(c) ==
    \/ Deliver(c)
    \/ Receive(c)
    \/ ConsumerParse(c)
    \/ HandlerClassifyFails(c)
    \/ HandlerDispatch(c)
    \/ HandlerResolve(c)
    \/ HandlerRpcReturn(c)
    \/ HandlerPublish(c)
    \/ ConsumerSettle(c)

\* ingress-svc alone, with the other producers of text.commands.
InitIngress == InitStore({<<>>}) /\ InitQueues({}) /\ llm = {Answer.Create}

NextIngress ==
    \/ \E i \in Ingresses : HandleSMS(i, Events)
    \/ ForeignPublish

SpecIngress == InitIngress /\ [][NextIngress]_vars

NextPipeline ==
    \/ HandleSMS("i1", TextEvents)
    \/ ForeignPublish
    \/ \E c \in Clients : ConsumerStep(c)
    \/ \E c \in Clients : ServerStep(c)
    \/ DomainCrash

SpecPipeline == InitPipeline /\ [][NextPipeline]_vars

SpecDispatch == InitDispatch /\ [][NextPipeline]_vars

\* The pipeline with the shutdown of command-svc instances and no other
\* failure (the failure budget is spent): two instances, the event SM1, a
\* classifier answering create or complete by title.
InitShutdown ==
    /\ InitStoreSpent({<<>>} \cup InitialTables, MaxFaults)
    /\ InitQueues(Clients)
    /\ llm \in {{Answer.Create}, {Answer.CompleteHint}}

NextShutdown ==
    \/ HandleSMS("i1", {SM1Event})
    \/ \E c \in Clients :
          \/ Deliver(c) \/ Receive(c) \/ ConsumerParse(c) \/ HandlerDispatch(c)
          \/ HandlerResolve(c) \/ HandlerRpcReturn(c) \/ HandlerPublish(c)
          \/ ConsumerSettle(c)
    \/ \E c \in Clients : ServerMutate(c) \/ ServerReadBack(c) \/ ServerRecord(c)
    \/ \E c \in Clients : Shutdown(c)
    \/ \E c \in Clients : HandlerCancelled(c)
    \/ \E c \in Clients : ServerCtxCancelled(c)
    \/ \E c \in Clients : LoopExit(c)

SpecShutdown == InitShutdown /\ [][NextShutdown]_vars

\* The broker keeps delivering to a consuming instance and the consumer loop
\* keeps running ("for delivery := range deliveries"): a received body is
\* decoded and a finished handling is settled. Nothing is assumed about the
\* classifier, the domain service or the publishes: failures and new messages
\* are not forced.
Fairness ==
    \A c \in Clients :
        /\ WF_vars(Deliver(c))
        /\ WF_vars(Receive(c))
        /\ WF_vars(ConsumerParse(c))
        /\ WF_vars(ConsumerSettle(c))

\* One instance over the store with one item, with a classifier that answers
\* create or complete by title.
InitLive ==
    /\ InitStore(InitialTables)
    /\ InitQueues({"c1"})
    /\ llm \in {{Answer.Create}, {Answer.CompleteHint}}

SpecLive == InitLive /\ [][NextPipeline]_vars /\ Fairness

\* One instance whose classifier answers an action outside the closed set, or
\* complete #1 (which no row of the empty store matches): no failure is
\* injected, and the loop, the handler and the domain server keep running.
InitPoison ==
    /\ InitStoreSpent({<<>>} \cup InitialTables, MaxFaults)
    /\ InitQueues({"c1"})
    /\ llm \in {{Answer.Snooze}, {Answer.CompleteId}}

NextPoison ==
    \/ HandleSMS("i1", TextEvents)
    \/ \E c \in Clients :
          \/ Deliver(c) \/ Receive(c) \/ ConsumerParse(c) \/ HandlerDispatch(c)
          \/ HandlerRpcReturn(c) \/ HandlerPublish(c) \/ ConsumerSettle(c)
    \/ \E c \in Clients : ServerMutate(c) \/ ServerReadBack(c) \/ ServerRecord(c)

FairPoison ==
    \A c \in Clients :
        /\ WF_vars(Deliver(c))
        /\ WF_vars(Receive(c))
        /\ WF_vars(ConsumerParse(c))
        /\ WF_vars(HandlerDispatch(c))
        /\ WF_vars(HandlerRpcReturn(c))
        /\ WF_vars(ConsumerSettle(c))
        /\ WF_vars(ServerMutate(c))
        /\ WF_vars(ServerReadBack(c))

SpecPoison == InitPoison /\ [][NextPoison]_vars /\ FairPoison

\* One instance that keeps running over the store with one item, with a
\* classifier that answers create. Failures of the classifier, of the key
\* lookup and of the reply publish can be injected up to the bound, and other
\* publishers put on the queue a body that does not decode and one that
\* decodes without a user (a command the domain server refuses on every
\* attempt).
InitRetry ==
    /\ InitStore(InitialTables)
    /\ InitQueues({"c1"})
    /\ llm = {Answer.Create}

NextRetry ==
    \/ HandleSMS("i1", TextEvents)
    \/ ForeignPublish
    \/ \E c \in Clients :
          \/ Deliver(c) \/ Receive(c) \/ ConsumerParse(c)
          \/ HandlerClassifyFails(c) \/ HandlerDispatch(c)
          \/ HandlerRpcReturn(c) \/ HandlerPublish(c) \/ ConsumerSettle(c)
    \/ \E c \in Clients : ServerMutate(c) \/ ServerRecord(c)

\* The loop, the handler and the domain server keep running: the classifier
\* and every call return in the end, and so does the reply publish.
SpecRetry ==
    /\ InitRetry
    /\ [][NextRetry]_vars
    /\ FairPoison
    /\ \A c \in Clients : WF_vars(HandlerPublish(c)) /\ WF_vars(ServerRecord(c))

\* One instance whose classifier leaves the target of the command to the title
\* lookup, or leaves it out, over stores where the word "milk" and the mark of
\* a title are also in titles that the lookup has to pass over; or answers
\* an edit, by number or by title, that gives a new title only or a new
\* description only; or answers complete #1, which these stores hold active,
\* deleted or not at all; or answers a list with the filter all, completed
\* or none. Every item's description repeats its title. some: the
\* newest items are one of User2, a completed and a deleted one of User1, and
\* two older items of User1 are active. none: no item of User1 is active.
\* marks: User1 has a cross, User2 a tick. No failure is injected.
InitResolve ==
    LET ins(tbl, u, t) == SqlInsertTodo(tbl, u, t, t, Len(tbl) + 1)
        five  == ins(ins(ins(ins(ins(<<>>, User1, Str.Milk_run), User1, Str.buy_milk),
                             User1, Str.milk), User1, Str.Milk_run), User2, Str.milk)
        some  == SqlUpdateDelete(SqlUpdateComplete(five, 4, User1, 6, 6), 3, User1, 7)
        none  == SqlUpdateDelete(SqlUpdateComplete(some, 2, User1, 8, 8), 1, User1, 9)
        marks == ins(ins(<<>>, User1, Str.cross), User2, Str.tick)
    IN  /\ InitStoreSpent({<<>>, some, none, marks}, MaxFaults)
        /\ InitQueues({"c1"})
        /\ llm \in {{Answer.NotJSON}, {Answer.CompleteHint}, {Answer.DeleteHint},
                    {Answer.EditHint}, {Answer.EditId}, {Answer.CompleteId}}
                   \cup {{Vague[k]} : k \in DOMAIN Vague}
                   \cup {{Cmd("edit", target @@ [new_description |-> Str.eggs],
                               95, EmptyStr)} :
                            target \in {[todo_id |-> Str.one],
                                        [title_hint |-> Str.milk]}}
                   \cup {{Cmd("list", [filter |-> f], 95, EmptyStr)} :
                            f \in {Str.all, Str.completed, EmptyStr}}

\* One instance with a budget of two failures, so that a failed record write
\* and a failed reply publish can meet in one run; the classifier answers
\* create, or delete by title.
InitReplay ==
    /\ InitStoreSpent({<<>>} \cup InitialTables, MaxFaults - 2)
    /\ InitQueues({"c1"})
    /\ llm \in {{Answer.Create}, {Answer.DeleteHint}}

SpecReplay == InitReplay /\ [][NextPipeline]_vars

NextResolve == NextPoison \/ \E c \in Clients : HandlerResolve(c)

SpecResolve == InitResolve /\ [][NextResolve]_vars

----------------------------------------------------------------------------
(* Claims about the domain server, checked under SpecDomain *)

KeyOf(c) == rpc[c].req.idempotency_key

\* C1: a mutating RPC (CreateTodo, CompleteTodo, DeleteTodo, EditTodo) whose
\* key is already in idempotency_keys when it looks it up returns the recorded
\* response verbatim, never runs its store statement and writes no record.
C1_ReplayReturnsRecord ==
    \A c \in Clients :
        rpc[c].hit =>
            /\ rpc[c].pc = "done"
            /\ rpc[c].code = "OK"
            /\ rpc[c].resp = recorded[KeyOf(c)]
            /\ ~rpc[c].mutated
            /\ ~rpc[c].wrote

\* C1 witness: a CompleteTodo replayed from the record of an earlier completion.
C1_Witness ==
    \E c \in Clients :
        /\ rpc[c].hit
        /\ rpc[c].op = "complete"
        /\ rpc[c].resp.status = "TODO_STATUS_COMPLETED"

\* C4: for every key, over every interleaving of the requests that carry it,
\* the keyed mutation changes rows at most once (stated over the runs without
\* an injected failure, so that a violation is a pure interleaving).
C4_AtMostOncePerKey ==
    faults = 0 => \A k \in AllKeys \ {""} : applied[k] <= 1

\* C5: when the server crashed after a call's mutation was committed and before
\* its record write, and no other call has written the key's record, a later
\* request with that key finds no record and runs its mutation again; for
\* create, a second row is inserted.
C5_CrashWindowReexecutes ==
    \A c \in Clients :
        rpc[c].sawLost =>
            /\ ~rpc[c].hit
            /\ rpc[c].pc = "mutate" \/ rpc[c].mutated
                  \/ rpc[c].code \in {"Internal", "Unavailable"}
            /\ (rpc[c].mutated /\ rpc[c].op = "create") =>
                  /\ applied[KeyOf(c)] >= 2
                  /\ Len(todos) >= 2

\* C5 witness: the retried create has returned success and the table holds two
\* rows made from the same key.
C5_Witness ==
    \E c \in Clients :
        /\ rpc[c].sawLost /\ rpc[c].op = "create"
        /\ rpc[c].pc = "done" /\ rpc[c].code = "OK"
        /\ applied[KeyOf(c)] = 2
        /\ \E i, j \in 1..Len(todos) :
              /\ i # j
              /\ todos[i].title = todos[j].title
              /\ todos[i].user_id = todos[j].user_id
              /\ todos[j].id = rpc[c].resp.id

IdemUnique == \A r1, r2 \in idem : r1.key = r2.key => r1 = r2

\* C6: idempotency records are append-only with unique keys: at most one row
\* per key in every state, no row is ever changed or removed, and the row of a
\* key holds the response of the first record write for it.
C6_RecordsAppendOnly ==
    /\ [](IdemUnique /\ \A r \in idem : JsonUnmarshal(r.response) = recorded[r.key])
    /\ [][\A r \in idem : r \in idem']_vars

\* C6 witness: a call wrote its record after another call had recorded a
\* different response under the same key, and the first row is still there.
C6_Witness ==
    \E c \in Clients :
        /\ rpc[c].wrote /\ rpc[c].pc = "done"
        /\ \E r \in idem : r.key = KeyOf(c) /\ JsonUnmarshal(r.response) # rpc[c].resp

----------------------------------------------------------------------------
(* Claims about the pipeline *)

\* C2: dispatching the same envelope twice in sequence, with the classifier
\* answering the same mutating command both times, yields the same reply text
\* both times and changes rows at most once under the envelope's key (stated
\* over the runs without an injected failure).
C2_SameReplyOneMutation ==
    faults = 0 =>
        /\ \A h1, h2 \in handled :
              (/\ hist[h1.m].body = hist[h2.m].body
               /\ h1.cmd = h2.cmd
               /\ h1.cmd.action \in MutatingOps) => h1.reply = h2.reply
        /\ \A k \in AllKeys \ {""} : applied[k] <= 1

\* C3: when only the SM1 "buy milk" event has been delivered (once or twice) to
\* an empty store and the classifier answers create "buy milk", the store holds
\* at most the one active todo #1 and every reply published is
\* "Added #1: buy milk" (stated over the runs without an injected failure).
C3_SM1OneTodoSameReply ==
    (scenarioSM1 /\ faults = 0) =>
        /\ Len(todos) <= 1
        /\ \A i \in DOMAIN todos :
              todos[i].status = "active" /\ todos[i].title = Str.buy_milk
        /\ \A i \in DOMAIN replies : replies[i].message = Msg.Added1BuyMilk

FromIngress(m) == hist[m].origin \in Ingresses

\* C7: every envelope ingress-svc publishes, on either queue and from any
\* instance, carries the key GenerateKey gives for its message sid; so two
\* envelopes of the same external event carry the same key.
C7_EnvelopeKeyIsGenerateKey ==
    /\ \A m \in Msgs :
          FromIngress(m) =>
             hist[m].body.fields.idempotency_key
                = GenerateKey(hist[m].body.fields.message_sid)
    /\ \A i \in DOMAIN audioq :
          audioq[i].fields.idempotency_key = GenerateKey(audioq[i].fields.message_sid)
    /\ \A m1, m2 \in Msgs :
          (/\ FromIngress(m1) /\ FromIngress(m2)
           /\ hist[m1].body.fields.message_sid = hist[m2].body.fields.message_sid)
             => hist[m1].body.fields.idempotency_key
                   = hist[m2].body.fields.idempotency_key

\* C7 witness: two instances have each published the event SM1, and both
\* envelopes carry its key.
C7_Witness ==
    \E m1, m2 \in Msgs :
        /\ hist[m1].origin = "i1" /\ hist[m2].origin = "i2"
        /\ hist[m1].body.fields.message_sid = "SM1"
        /\ hist[m2].body.fields.message_sid = "SM1"
        /\ hist[m1].body.fields.idempotency_key = Key1
        /\ hist[m2].body.fields.idempotency_key = Key1

\* C8: every delivery a consumer took receives exactly one of ack, requeue and
\* drop: none while it is being processed, one once the loop is back at its
\* select, and every delivery of a message is accounted for by one disposition;
\* ack only after a decoded body and a handler success, drop only after a body
\* that does not decode, requeue only after a handler error.
C8_OneDispositionPerDelivery ==
    /\ \A c \in Clients :
          /\ con[c].pc # "waiting" => con[c].nsettle = 0 /\ con[c].disp = "none"
          /\ (con[c].pc = "waiting" /\ con[c].m # 0) =>
                con[c].nsettle = 1 /\ con[c].disp \in {"ack", "requeue", "drop"}
          /\ con[c].disp = "ack" =>
                /\ JsonUnmarshalMsg(hist[con[c].m].body).ok
                /\ con[c].parsed /\ ~con[c].herr
          /\ con[c].disp = "drop" =>
                ~JsonUnmarshalMsg(hist[con[c].m].body).ok /\ ~con[c].parsed
          /\ con[c].disp = "requeue" => con[c].parsed /\ con[c].herr
    /\ \A m \in Msgs :
          hist[m].deliver < MaxCount =>
             hist[m].deliver
                = hist[m].ack + hist[m].requeue + hist[m].drop
                  + Cardinality({c \in Clients : con[c].m = m /\ con[c].pc # "waiting"})

\* C8 witness: one message was dropped, another was requeued and then acked.
C8_Witness ==
    \E m1, m2 \in Msgs :
        /\ hist[m1].drop = 1
        /\ hist[m2].requeue >= 1 /\ hist[m2].ack = 1

Malformed(m) == hist[m].origin # "none" /\ ~JsonUnmarshalMsg(hist[m].body).ok

\* C9: a message whose body does not decode is rejected without requeue once,
\* never reaches the handler, is delivered once only, is gone from the queue
\* afterwards, and leaves the consumer back at its select.
C9_MalformedDroppedOnce ==
    \A m \in Msgs :
        Malformed(m) =>
            /\ hist[m].handler = 0 /\ hist[m].ack = 0 /\ hist[m].requeue = 0
            /\ hist[m].deliver <= 1 /\ hist[m].drop <= 1
            /\ hist[m].drop = 1 =>
                  /\ \A i \in DOMAIN textq : textq[i].id # m
                  /\ \A c \in Clients : con[c].m = m => con[c].pc = "waiting"
            /\ (hist[m].deliver = 1 /\ hist[m].drop = 0) =>
                  \E c \in Clients : con[c].m = m /\ con[c].pc = "received"

\* C9 witness: after dropping the malformed message the consumer has taken the
\* next message and entered its handler.
C9_Witness ==
    \E m \in Msgs :
        /\ Malformed(m) /\ hist[m].drop = 1
        /\ \E c \in up : con[c].pc = "ai" /\ con[c].m # m

\* C10: a handler error on a decoded message gets exactly one
\* reject-with-requeue (no ack, no drop), and the message is then delivered
\* again and the handler entered a second time.
C10_HandlerErrorRequeuedAndRetried ==
    /\ [](\A c \in Clients :
            (con[c].pc = "waiting" /\ con[c].parsed /\ con[c].herr) =>
                con[c].disp = "requeue" /\ con[c].nsettle = 1)
    /\ \A m \in Msgs :
          (\E c \in Clients :
              con[c].m = m /\ con[c].pc = "settle" /\ con[c].herr /\ hist[m].handler = 1)
              ~> (hist[m].deliver >= 2 /\ hist[m].handler >= 2)

\* C10 witness: a message was requeued after a handler error and the handler
\* has been entered for it again.
C10_Witness ==
    \E m \in Msgs : hist[m].requeue >= 1 /\ hist[m].handler >= 2

----------------------------------------------------------------------------
(* Prefetch, shutdown and retry of the consumer loop *)

\* C11: with prefetch 1 an instance never holds more than one unacknowledged
\* delivery; the broker sends it a delivery only when it holds none (its last
\* one was acked or rejected); while its handler runs nothing else waits in
\* its channel, so handler invocations of one instance follow one another;
\* and the loop takes deliveries oldest first and enters the handler for the
\* delivery it took.
C11_OneUnackedInOrder ==
    /\ [](\A c \in Clients :
            /\ Unacked(c) <= 1
            /\ con[c].pc # "waiting" => msgs[c] = <<>>)
    /\ [][\A c \in Clients :
            /\ Len(msgs'[c]) > Len(msgs[c]) =>
                  /\ Unacked(c) = 0
                  /\ con[c].m # 0 => con[c].disp \in {"ack", "requeue", "drop"}
            /\ (con[c].pc = "waiting" /\ con'[c].pc = "received") =>
                  /\ msgs[c] # <<>>
                  /\ con'[c].m = Head(msgs[c]).id
                  /\ msgs'[c] = Tail(msgs[c])
            /\ (con[c].pc = "received" /\ con'[c].pc = "ai") =>
                  con'[c].m = con[c].m]_vars

\* C11 witness: an instance is inside a domain call of its handler while
\* another message waits on the queue and is not sent to it; the message it
\* handles is one it rejected before and received again.
C11_Witness ==
    \E c \in up :
        /\ con[c].pc = "rpc" /\ textq # <<>> /\ msgs[c] = <<>>
        /\ hist[con[c].m].requeue >= 1 /\ hist[con[c].m].deliver >= 2

\* C12: shutdown halts the loop between messages only (a stopped instance was
\* at its select and its unacknowledged deliveries are back on the queue), and
\* no call of a handler invocation that has started is failed by the shutdown.
C12_ShutdownNeverInterruptsHandler ==
    /\ \A c \in Clients \ up : con[c].pc = "waiting" /\ msgs[c] = <<>>
    /\ cut = {}

\* Messages published to text.commands so far.
PublishedMsgs == {m \in Msgs : hist[m].origin # "none"}

\* Where message m is: on the queue, in an instance's channel, or taken by a
\* running loop and not settled.
Pending(m) ==
    \/ \E i \in DOMAIN textq : textq[i].id = m
    \/ \E c \in Clients : \E i \in DOMAIN msgs[c] : msgs[c][i].id = m
    \/ \E c \in up : con[c].m = m /\ con[c].pc # "waiting"

\* C13: whenever shutdown is signalled, no command is lost (a message that is
\* no longer pending was acked, and for a create its todo was inserted) and
\* none is committed twice (a single published envelope changes rows at most
\* once under its key, redeliveries included).
C13_NoLossNoDoubleCommit ==
    /\ \A m \in PublishedMsgs :
          ~Pending(m) =>
             /\ hist[m].ack >= 1
             /\ llm = {Answer.Create} =>
                   applied[hist[m].body.fields.idempotency_key] >= 1
    /\ Cardinality(PublishedMsgs) = 1 => \A k \in AllKeys \ {""} : applied[k] <= 1

\* Every handling in this behaviour fails: the classifier answers an unknown
\* action, or complete #1 while the store has no row.
AlwaysFails == llm = {Answer.Snooze} \/ (llm = {Answer.CompleteId} /\ todos = <<>>)

\* C14: a handler error is answered with reject-with-requeue whatever the
\* number of earlier attempts (the message is back at the head of the queue,
\* its ack and drop counts unchanged); a well-formed message whose handler
\* fails on every attempt is never acked or dropped, and is received again
\* after every attempt.
C14_RequeueWithoutLimit ==
    /\ [][\A c \in Clients :
            (con[c].pc = "settle" /\ con[c].herr /\ con'[c].pc = "waiting") =>
                /\ con'[c].disp = "requeue"
                /\ textq' # <<>> /\ Head(textq').id = con[c].m
                /\ hist'[con[c].m].requeue = Bump(hist[con[c].m].requeue)
                /\ hist'[con[c].m].ack = hist[con[c].m].ack
                /\ hist'[con[c].m].drop = hist[con[c].m].drop]_vars
    /\ [](AlwaysFails =>
            \A m \in Msgs : hist[m].handler >= 1 => hist[m].ack = 0 /\ hist[m].drop = 0)
    /\ \A m \in Msgs :
          (AlwaysFails /\ hist[m].handler >= 1)
              ~> (\E c \in Clients : con[c].m = m /\ con[c].pc = "received")

\* C14 witness: a message has failed and been requeued as often as the history
\* counts, and is in its handler again.
C14_Witness ==
    \E c \in up :
        /\ AlwaysFails /\ con[c].pc = "ai"
        /\ hist[con[c].m].requeue = MaxCount /\ hist[con[c].m].handler = MaxCount
        /\ hist[con[c].m].ack = 0 /\ hist[con[c].m].drop = 0

\* C15: a command whose domain call returned NotFound or PermissionDenied is
\* not rejected with requeue.
C15_DomainErrorNotRequeued ==
    \A c \in Clients :
        (con[c].pc = "waiting" /\ con[c].herr
         /\ con[c].code \in {ErrorCode("ErrNotFound"), ErrorCode("ErrNotOwner")})
            => con[c].disp # "requeue"

\* C16: when the handler returns with a failed execution (classifier error,
\* domain error or unknown action: an error and no result), a reply to the
\* sender is on the reply queue.
C16_FailedCommandGetsReply ==
    \A c \in Clients :
        (con[c].pc = "settle" /\ con[c].herr /\ con[c].result = EmptyStr)
            => \E i \in 1..Len(replies) : replies[i].user_id = con[c].msg.user_id

----------------------------------------------------------------------------
(* Ownership and status rules of CompleteTodo, DeleteTodo and EditTodo *)

\* Call r is a well-formed complete, delete or edit of an existing item.
Targets(r) ==
    /\ r.op \in {"complete", "delete", "edit"}
    /\ ServerValidate(r.op, r.req) = "OK"
    /\ GetTodoFound(todos, r.req.todo_id)

\* ... of an item whose user_id is the caller's
Own(r) == Targets(r) /\ todos[r.req.todo_id].user_id = r.req.user_id

\* C17: a complete, delete or edit of an existing item of another user ends
\* with PermissionDenied (Internal if a database call failed, Unavailable if
\* the server crashed), never with NotFound or OK, whatever the item's status,
\* and no step of the call changes the table.
C17_NonOwnerDenied ==
    /\ [][\A c \in Clients :
            (rpc[c].pc # "done" /\ rpc'[c].pc = "done" /\ Targets(rpc'[c])
             /\ todos[rpc'[c].req.todo_id].user_id # rpc'[c].req.user_id)
                => rpc'[c].code \in {"PermissionDenied", "Internal", "Unavailable"}]_vars
    /\ [][\A c \in Clients :
            (/\ Targets(rpc[c])
             /\ todos[rpc[c].req.todo_id].user_id # rpc[c].req.user_id
             /\ rpc'[c] # rpc[c]) => todos' = todos]_vars

\* The UPDATE step and the read-back step of call c.
UpdateStep(c) == rpc[c].pc = "mutate" /\ rpc'[c].pc = "readback"
ReadBackStep(c) == rpc[c].pc = "readback" /\ rpc'[c].pc \in {"record", "done"}
                   /\ rpc'[c].code # "Unavailable"

\* C18: CompleteTodo by the owner of an item that is completed or deleted
\* updates no row and leaves the table as it is, and returns the item as it
\* stands without an error; completing an item twice gives the table that
\* completing it once gives.
C18_CompleteAgainIsNoOp ==
    /\ [][\A c \in Clients :
            (rpc[c].op = "complete" /\ Own(rpc[c])
             /\ todos[rpc[c].req.todo_id].status \in {"completed", "deleted"})
                => /\ UpdateStep(c) => (todos' = todos /\ rpc'[c].rows = 0)
                   /\ ReadBackStep(c) =>
                          /\ rpc'[c].code = "OK"
                          /\ rpc'[c].resp = storeToProto(todos[rpc[c].req.todo_id])
                          /\ todos' = todos]_vars
    /\ [](\A id \in 1..Len(todos) : \A u \in {User1, User2} :
            LET once == SqlUpdateComplete(todos, id, u, clock + 1, clock + 1)
            IN  SqlUpdateComplete(once, id, u, clock + 2, clock + 2) = once)

\* C18 witness: the owner's CompleteTodo of a completed item has returned it,
\* with the completion time of the first completion, having updated no row.
C18_Witness ==
    \E c \in Clients :
        /\ rpc[c].op = "complete" /\ Own(rpc[c]) /\ rpc[c].pc = "done"
        /\ rpc[c].mutated /\ rpc[c].rows = 0 /\ rpc[c].code = "OK"
        /\ todos[rpc[c].req.todo_id].status = "completed"
        /\ rpc[c].resp = storeToProto(todos[rpc[c].req.todo_id])
        /\ rpc[c].resp.completed_at < clock

\* C19: DeleteTodo by the owner of an item that is active or completed sets
\* its status to deleted and touches no other row; on a deleted item it
\* updates no row, leaves the table as it is and returns the item as it stands
\* without an error; deleting an item twice gives the table that deleting it
\* once gives.
C19_DeleteOnceThenNoOp ==
    /\ [][\A c \in Clients :
            (rpc[c].op = "delete" /\ Own(rpc[c])) =>
                LET id == rpc[c].req.todo_id
                IN  /\ (UpdateStep(c) /\ todos[id].status # "deleted") =>
                           /\ rpc'[c].rows = 1
                           /\ todos'[id].status = "deleted"
                           /\ todos'[id].deleted_at = clock'
                           /\ \A j \in 1..Len(todos) : j # id => todos'[j] = todos[j]
                    /\ (UpdateStep(c) /\ todos[id].status = "deleted") =>
                           (rpc'[c].rows = 0 /\ todos' = todos)
                    /\ (ReadBackStep(c) /\ todos[id].status = "deleted") =>
                           /\ rpc'[c].code = "OK"
                           /\ rpc'[c].resp = storeToProto(todos[id])
                           /\ todos' = todos]_vars
    /\ [](\A id \in 1..Len(todos) : \A u \in {User1, User2} :
            LET once == SqlUpdateDelete(todos, id, u, clock + 1)
            IN  SqlUpdateDelete(once, id, u, clock + 2) = once)

\* C19 witness: the owner's DeleteTodo of a deleted item has returned it,
\* having updated no row; deleted_at is the time of the first deletion.
C19_Witness ==
    \E c \in Clients :
        /\ rpc[c].op = "delete" /\ Own(rpc[c]) /\ rpc[c].pc = "done"
        /\ rpc[c].mutated /\ rpc[c].rows = 0 /\ rpc[c].code = "OK"
        /\ todos[rpc[c].req.todo_id].status = "deleted"
        /\ rpc[c].resp.status = "TODO_STATUS_DELETED"
        /\ todos[rpc[c].req.todo_id].deleted_at < clock

\* C20: EditTodo by the owner of an item updates the row exactly when its
\* status is not deleted, and then returns without an error; on a deleted item
\* it updates no row, leaves the table as it is and returns NotFound.
C20_EditFailsOnDeleted ==
    [][\A c \in Clients :
        (rpc[c].op = "edit" /\ Own(rpc[c])) =>
            LET id == rpc[c].req.todo_id
            IN  /\ (UpdateStep(c) /\ todos[id].status # "deleted") =>
                       /\ rpc'[c].rows = 1
                       /\ todos'[id].title = rpc[c].req.title
                       /\ todos'[id].description = rpc[c].req.description
                       /\ todos'[id].status = todos[id].status
                /\ (UpdateStep(c) /\ todos[id].status = "deleted") =>
                       (rpc'[c].rows = 0 /\ todos' = todos)
                /\ ReadBackStep(c) =>
                       /\ todos' = todos
                       /\ rpc[c].rows = 1 => rpc'[c].code = "OK"
                       /\ rpc[c].rows = 0 =>
                              (rpc'[c].code = "NotFound" /\ rpc'[c].pc = "done")]_vars

\* C20 witness: the owner's EditTodo of a deleted item has returned NotFound
\* and the row still has the title it was created with.
C20_Witness ==
    \E c \in Clients :
        /\ rpc[c].op = "edit" /\ Own(rpc[c]) /\ rpc[c].pc = "done"
        /\ rpc[c].mutated /\ rpc[c].rows = 0 /\ rpc[c].code = "NotFound"
        /\ todos[rpc[c].req.todo_id].status = "deleted"
        /\ todos[rpc[c].req.todo_id].title = Str.Milk_run

\* C21: in every step no row is removed, a completed item stays completed or
\* becomes deleted, a deleted item stays deleted, and the title and
\* description of a deleted item stay as they are.
C21_StatusOnlyForward ==
    [][/\ Len(todos') >= Len(todos)
       /\ \A id \in 1..Len(todos) :
            /\ todos[id].status = "completed"
                   => todos'[id].status \in {"completed", "deleted"}
            /\ todos[id].status = "deleted"
                   => /\ todos'[id].status = "deleted"
                      /\ todos'[id].title = todos[id].title
                      /\ todos'[id].description = todos[id].description]_vars

\* C21 witness: the owner's CompleteTodo of a deleted item has run its UPDATE
\* and returned, and the item is still deleted and was never completed.
C21_Witness ==
    \E c \in Clients :
        /\ rpc[c].op = "complete" /\ Own(rpc[c]) /\ rpc[c].pc = "done"
        /\ rpc[c].mutated
        /\ todos[rpc[c].req.todo_id].status = "deleted"
        /\ todos[rpc[c].req.todo_id].completed_at = NullTime

----------------------------------------------------------------------------
(* Classification and validation of webhook requests *)

\* C22: a request that passes validation and carries both media (NumMedia
\* present and not "0", MediaUrl0 non-empty) and a non-empty body leaves
\* text.commands as it is and, unless its publish fails, puts exactly one
\* envelope on audio.processing: sender, media URL, event id and key, and no
\* field with the body text.
C22_MediaTakesPrecedence ==
    [][LET ev == http'.ev
       IN  (/\ http'.seq # http.seq
            /\ http'.status \in {200, 500}
            /\ ev.NumMedia # "" /\ ev.NumMedia # "0" /\ ev.MediaUrl0 # ""
            /\ ev.Body # EmptyStr)
           => /\ textq' = textq
              /\ http'.status = 200 =>
                    /\ Len(audioq') = Len(audioq) + 1
                    /\ audioq'[Len(audioq')].kind = "object"
                    /\ audioq'[Len(audioq')].fields =
                          [user_id |-> ev.From, media_url |-> ev.MediaUrl0,
                           message_sid |-> ev.MessageSid,
                           idempotency_key |-> GenerateKey(ev.MessageSid)]
              /\ http'.status = 500 => audioq' = audioq]_vars

\* C22 witness: the request with a media URL and the body "buy milk" was
\* answered 200; the audio queue holds its envelope and text.commands nothing.
C22_Witness ==
    /\ http.status = 200
    /\ http.ev.NumMedia = "1" /\ http.ev.MediaUrl0 # "" /\ http.ev.Body = Str.buy_milk
    /\ Len(audioq) = 1 /\ textq = <<>>

\* The request passes HandleSMS's checks of method, form, required fields and
\* signature at the instance that took it.
Validated(h) ==
    /\ h.ev.method = "POST" /\ h.ev.formOK
    /\ h.ev.From # "" /\ h.ev.MessageSid # ""
    /\ twilioAuthToken(h.by) = "" \/ h.ev.signatureValid

\* The request carries a media reference.
HasMedia(ev) == ev.NumMedia # "" /\ ev.NumMedia # "0" /\ ev.MediaUrl0 # ""

\* C23: a validated request without media whose body is empty after trimming
\* is answered 400 and puts nothing on either queue; no envelope that
\* ingress-svc published to text.commands has an empty command_text.
C23_EmptyNeverEnqueued ==
    /\ [][(/\ http'.seq # http.seq
            /\ Validated(http')
            /\ ~HasMedia(http'.ev)
            /\ TrimSpace(http'.ev.Body) = EmptyStr)
           => (http'.status = 400 /\ textq' = textq /\ audioq' = audioq)]_vars
    /\ [](\A m \in Msgs :
            hist[m].origin \in Ingresses
                => hist[m].body.fields.command_text # EmptyStr)

\* C24: a validated request without media and with a non-empty body leaves
\* audio.processing as it is and, unless its publish fails, puts exactly one
\* envelope on text.commands: user_id the sender, command_text the trimmed
\* body, message_sid the event id, and a non-empty idempotency key.
C24_TextEnvelope ==
    [][LET ev == http'.ev
       IN  (/\ http'.seq # http.seq
            /\ Validated(http')
            /\ ~HasMedia(ev)
            /\ ev.Body # EmptyStr)
           => /\ audioq' = audioq
              /\ http'.status \in {200, 500}
              /\ http'.status = 500 => textq' = textq
              /\ http'.status = 200 =>
                    /\ Len(textq') = Len(textq) + 1
                    /\ SubSeq(textq', 1, Len(textq)) = textq
                    /\ LET env == textq'[Len(textq')].body
                       IN  /\ env.kind = "object"
                           /\ DOMAIN env.fields = TextFields
                           /\ env.fields.user_id = ev.From
                           /\ env.fields.command_text = TrimSpace(ev.Body)
                           /\ env.fields.message_sid = ev.MessageSid
                           /\ env.fields.idempotency_key # ""]_vars

\* C24 witness: the request with the body " done with milk\n" and no NumMedia was
\* answered 200 and its envelope, with the spaces trimmed, is the newest on
\* text.commands.
C24_Witness ==
    /\ http.status = 200 /\ http.ev = SM2Event
    /\ textq # <<>>
    /\ LET text == textq[Len(textq)].body.fields.command_text
       IN  /\ text # http.ev.Body
           /\ Len(text) = Len(http.ev.Body) - 2
           /\ Head(text) # " " /\ text[Len(text)] # " "

\* C25: a request with a method other than POST is answered 405; a POST whose
\* form does not parse or lacks From or MessageSid is answered 400; a POST
\* with both fields but no valid signature, at an instance with an auth token,
\* is answered 403; and none of these puts anything on either queue.
C25_ValidationRejects ==
    [][http'.seq # http.seq =>
        LET ev == http'.ev
            fieldsOK == ev.formOK /\ ev.From # "" /\ ev.MessageSid # ""
        IN  /\ ev.method # "POST" => http'.status = 405
            /\ (ev.method = "POST" /\ ~fieldsOK) => http'.status = 400
            /\ (ev.method = "POST" /\ fieldsOK /\ ~Validated(http'))
                   => http'.status = 403
            /\ ~Validated(http') => (textq' = textq /\ audioq' = audioq)]_vars

\* C25 witness: the instance with an auth token answered 403 to a request
\* without a valid signature, after an earlier request was published; the
\* queue holds that one envelope only.
C25_Witness ==
    /\ http.status = 403 /\ http.by = "i1" /\ ~http.ev.signatureValid
    /\ Len(textq) = 1 /\ audioq = <<>>
    /\ hist[1].origin \in Ingresses

\* C26: a request makes at most one publish in total (envelopes added plus
\* publishes failed, over both queues); it is answered 200 exactly when one
\* envelope was added and none failed, and a failed publish is answered 500
\* with both queues as they were.
C26_OnePublishPerRequest ==
    [][http'.seq # http.seq =>
        LET added  == (Len(textq') - Len(textq)) + (Len(audioq') - Len(audioq))
            failed == faults' - faults
        IN  /\ added \in {0, 1} /\ failed \in {0, 1} /\ added + failed <= 1
            /\ textq' = textq \/ audioq' = audioq
            /\ http'.status = 200 <=> added = 1
            /\ http'.status = 500 <=> failed = 1
            /\ failed = 1 => (textq' = textq /\ audioq' = audioq)]_vars

\* C26 witness: the publish of a validated text request failed; the request
\* was answered 500 and both queues are empty.
C26_Witness ==
    /\ http.status = 500 /\ faults = 1
    /\ Validated(http) /\ ~HasMedia(http.ev) /\ http.ev.Body = Str.buy_milk
    /\ textq = <<>> /\ audioq = <<>>

----------------------------------------------------------------------------
(* The dispatcher: intents, clarifying replies and the title fallback *)

\* C27: a domain call is issued only by a handler invocation whose intent is
\* create, complete, delete or edit, and it is the RPC of that name; an
\* invocation that has issued its call issues no other; the table changes
\* only under such a call; list is answered from a listing, nudge and unclear
\* without any domain operation, and an action outside the closed set is an
\* error without any domain operation.
C27_OneOperationPerIntent ==
    /\ [][\A c \in up :
            /\ (rpc[c].pc = "idle" /\ rpc'[c].pc # "idle") =>
                   /\ con[c].pc \in {"ai", "found"} /\ con'[c].pc = "rpc"
                   /\ rpc'[c].op = con'[c].cmd.action
                   /\ rpc'[c].op \in MutatingOps
            /\ con[c].pc \in {"rpc", "publish", "settle"}
                   => con'[c].pc \in {"rpc", "publish", "settle", "waiting"}
            /\ con[c].pc = "found" => con'[c].pc \in {"found", "rpc", "settle"}]_vars
    /\ [][todos' # todos =>
            \E c \in up : /\ con[c].pc = "rpc" /\ rpc[c].pc = "mutate"
                          /\ rpc[c].op = con[c].cmd.action]_vars
    /\ [](\A c \in up :
            (con[c].pc \in {"found", "rpc", "publish", "settle"} /\ con[c].cmd # NoCmd) =>
                LET kind == con[c].plan.kind
                    a    == con[c].cmd.action
                IN  /\ a \in {"nudge", "unclear"} => kind = "reply"
                    /\ a = "list" => kind = "list"
                    /\ a \in MutatingOps => kind \in {"call", "find", "reply"}
                    /\ a \notin MutatingOps \cup {"list", "nudge", "unclear"}
                          => kind = "error"
                    /\ kind \notin {"call", "find"} => rpc[c].pc = "idle")

\* C27 witness: a delete intent resolved by its title hint is inside its one
\* call, DeleteTodo, which has run its UPDATE.
C27_Witness ==
    \E c \in up :
        /\ con[c].cmd.action = "delete" /\ con[c].pc = "rpc"
        /\ con[c].found # NoTodo
        /\ rpc[c].op = "delete" /\ rpc[c].rows = 1

\* C28: an unclear intent (the answer for content that is no JSON included), a
\* create without a title, and a complete, delete or edit whose target cannot
\* be resolved (no todo_id that parses and no title hint, or a hint that no
\* active item of the sender matches) make executeCommand return a clarifying
\* text and no error, without a mutating call and without a change of the
\* store; the text is then published to the sender and the message is acked,
\* not requeued.
C28_ClarifyingReply ==
    [][LET Unresolved(cmd, userID) ==
               LET idStr == Param(cmd, "todo_id")
                   hint  == Param(cmd, "title_hint")
               IN  \/ cmd.action = "unclear"
                   \/ cmd.action = "create" /\ Param(cmd, "title") = EmptyStr
                   \/ /\ cmd.action \in {"complete", "delete", "edit"}
                      /\ ~(idStr # EmptyStr /\ ParseInt(idStr).ok)
                      /\ \/ hint = EmptyStr
                         \/ ~\E i \in DOMAIN todos :
                               /\ todos[i].user_id = userID
                               /\ todos[i].status = "active"
                               /\ containsIgnoreCase(todos[i].title, hint)
           Clarifying(cmd) ==
               {Msg.Unclear \o Param(cmd, "reason"), Msg.UnclearDefault, Msg.NoTitle,
                Msg.WhichComplete, Msg.WhichDelete, Msg.WhichEdit, Msg.ChangeTo,
                Msg.NotFoundPre \o Param(cmd, "title_hint") \o Msg.Quote}
       IN  \A c \in up :
             /\ (con[c].pc = "ai" /\ con'[c].pc # "ai"
                 /\ Unresolved(con'[c].cmd, con[c].msg.user_id)) =>
                    /\ con'[c].pc = "publish"
                    /\ ~con'[c].herr
                    /\ \E t \in Clarifying(con'[c].cmd) :
                           con'[c].result = WithNote(con'[c].cmd, t)
                    /\ rpc' = rpc /\ todos' = todos /\ idem' = idem
             /\ (con[c].pc \in {"publish", "settle"} /\ con'[c] # con[c]
                 /\ Unresolved(con[c].cmd, con[c].msg.user_id)) =>
                    /\ rpc' = rpc /\ todos' = todos /\ idem' = idem
                    /\ con[c].pc = "publish" =>
                           /\ con'[c].pc = "settle" /\ ~con'[c].herr
                           /\ replies' = Append(replies,
                                             [user_id |-> con[c].msg.user_id,
                                              message |-> con[c].result])
                    /\ con[c].pc = "settle" =>
                           /\ con'[c].pc = "waiting" /\ con'[c].disp = "ack"
                           /\ hist'[con[c].m].ack = Bump(hist[con[c].m].ack)
                           /\ hist'[con[c].m].requeue = hist[con[c].m].requeue
                           /\ textq' = textq]_vars

\* C28 witness: "complete" with a todo_id that is no number and without a hint
\* was answered with the question, which is on the reply queue, and the message
\* was acked.
C28_Witness ==
    \E c \in up :
        /\ llm = {Vague.CompleteNoTarget}
        /\ con[c].pc = "waiting" /\ con[c].disp = "ack"
        /\ hist[con[c].m].ack = 1 /\ hist[con[c].m].requeue = 0
        /\ replies # <<>> /\ replies[Len(replies)].message = Msg.WhichComplete
        /\ todos # <<>>

\* C29: when a complete, delete or edit command has no todo_id that parses and
\* has a title hint, the target is the first item, in the order the store
\* returns them, among the sender's own active items whose title contains the
\* hint as a case-insensitive substring (and none is found when there is no
\* such item); the item found is never another user's, nor completed or
\* deleted.
C29_FirstOwnActiveMatch ==
    [][LET Upper == <<"A","B","C","D","E","F","G","H","I","J","K","L","M",
                      "N","O","P","Q","R","S","T","U","V","W","X","Y","Z">>
           Lower == <<"a","b","c","d","e","f","g","h","i","j","k","l","m",
                      "n","o","p","q","r","s","t","u","v","w","x","y","z">>
           Fold(s) == [i \in DOMAIN s |->
                          IF \E j \in DOMAIN Upper : Upper[j] = s[i]
                          THEN Lower[CHOOSE j \in DOMAIN Upper : Upper[j] = s[i]]
                          ELSE s[i]]
           Within(s, sub) ==
               \E i \in 0..(Len(s) - Len(sub)) :
                   SubSeq(Fold(s), i + 1, i + Len(sub)) = Fold(sub)
       IN  \A c \in up :
             LET cmd   == con'[c].cmd
                 idStr == Param(cmd, "todo_id")
                 hint  == Param(cmd, "title_hint")
                 user  == con[c].msg.user_id
                 rows  == SqlSelectTodos(todos, user, "active")
                 hits  == {i \in DOMAIN rows : Within(rows[i].title, hint)}
             IN  (/\ con[c].pc = "ai" /\ con'[c].pc # "ai"
                  /\ cmd.action \in {"complete", "delete", "edit"}
                  /\ ~(idStr # EmptyStr /\ ParseInt(idStr).ok)
                  /\ hint # EmptyStr) =>
                     /\ hits = {} => con'[c].pc = "publish"
                     /\ hits # {} =>
                            /\ con'[c].pc = "found"
                            /\ con'[c].found =
                                  storeToProto(rows[CHOOSE i \in hits :
                                                       \A j \in hits : i <= j])
                     /\ con'[c].pc = "found" =>
                            /\ con'[c].found.user_id = user
                            /\ con'[c].found.status = "TODO_STATUS_ACTIVE"]_vars

----------------------------------------------------------------------------
(* Field checks of the domain server *)

\* C30: an RPC whose request misses a required field (user_id empty; todo_id 0
\* for complete, delete and edit; title empty for create) ends with
\* InvalidArgument before the store is used: the key is not looked up (not
\* even when it is recorded), no statement runs and no record is written.
C30_InvalidBeforeStore ==
    LET Missing(op, req) ==
            \/ req.user_id = ""
            \/ op \in {"complete", "delete", "edit"} /\ req.todo_id = 0
            \/ op = "create" /\ req.title = EmptyStr
        Rejected(r) ==
            /\ r.pc = "done" /\ r.code = "InvalidArgument"
            /\ ~r.hit /\ ~r.sawLost /\ ~r.mutated /\ ~r.wrote
            /\ r.rows = 0 /\ r.resp = NoTodo
    IN  /\ \A c \in Clients :
              (rpc[c].pc # "idle" /\ Missing(rpc[c].op, rpc[c].req)) => Rejected(rpc[c])
        /\ \A op \in MutatingOps, u \in {"", User1}, i \in {0, 1},
              t \in {EmptyStr, Str.eggs}, dbok \in BOOLEAN :
              LET req == Req(u, i, t, EmptyStr, Key1)
              IN  Missing(op, req) =>
                     /\ ~LooksUp(op, req)
                     /\ Rejected(Invoke(op, req, dbok))
        /\ \A f \in {"TODO_STATUS_ACTIVE", "TODO_STATUS_UNSPECIFIED"} :
              ServerListTodos(todos, "", f) = [code |-> "InvalidArgument", todos |-> <<>>]

\* C30 witness: a CompleteTodo with todo_id 0 has been rejected although its
\* key is recorded.
C30_Witness ==
    \E c \in Clients :
        /\ rpc[c].pc = "done" /\ rpc[c].op = "complete" /\ rpc[c].req.todo_id = 0
        /\ rpc[c].code = "InvalidArgument"
        /\ \E x \in idem : x.key = rpc[c].req.idempotency_key

----------------------------------------------------------------------------
(* Order within one handling, and replay after a failed reply, checked under *)
(* SpecReplay *)

----------------------------------------------------------------------------
(* Retry until success, checked under SpecRetry *)

----------------------------------------------------------------------------
(* Fields an edit leaves alone, checked under SpecResolve *)

\* C33: when an edit command gives only one of new_title and new_description,
\* the statement its EditTodo call runs leaves the other field of the todo as
\* it was, whether the command named the todo by number or by title.
C33_EditKeepsOtherField ==
    [][\A c \in up :
         LET cmd == con[c].cmd
             i   == rpc[c].req.todo_id
         IN  (/\ con[c].pc = "rpc" /\ cmd.action = "edit" /\ rpc[c].op = "edit"
              /\ todos' # todos) =>
                /\ Param(cmd, "new_title") = EmptyStr =>
                      todos'[i].title = todos[i].title
                /\ Param(cmd, "new_description") = EmptyStr =>
                      todos'[i].description = todos[i].description]_vars

----------------------------------------------------------------------------
(* What a reply says and what the store holds, checked under SpecResolve *)

\* C34: when the handler publishes a reply that begins "Completed #N:" the
\* todo N is completed in the store at that step, and when it publishes one
\* that begins "Deleted #N:" the todo N is deleted.
C34_ReplyMatchesStatus ==
    [][\A c \in up : \A i \in DOMAIN todos :
         LET reply == replies'[Len(replies')].message
             Says(pre) ==
                 LET head == pre \o Itoa(i) \o Msg.Colon
                 IN  Len(reply) >= Len(head) /\ SubSeq(reply, 1, Len(head)) = head
         IN  (con[c].pc = "publish" /\ Len(replies') > Len(replies)) =>
                /\ Says(Msg.Completed) => todos[i].status = "completed"
                /\ Says(Msg.Deleted) => todos[i].status = "deleted"]_vars

----------------------------------------------------------------------------
(* Which calls leave an idempotency record, checked under SpecDomain *)

\* C35: a record is written only by a call that ran its store statement and
\* returns success in the same step, under that call's key; a call that ends
\* with an error (InvalidArgument, NotFound, PermissionDenied, Internal,
\* Unavailable) has written no record; and a valid call whose key has no
\* record, its lookup done, goes on to its store statement instead of
\* returning an earlier outcome.
C35_OnlySuccessRecorded ==
    [][/\ idem' # idem =>
            \E c \in Clients :
                /\ rpc[c].pc = "record" /\ rpc[c].mutated
                /\ rpc'[c].pc = "done" /\ rpc'[c].code = "OK"
                /\ \E r \in idem' \ idem :
                      /\ idem' = idem \cup {r}
                      /\ r.key = KeyOf(c)
                      /\ JsonUnmarshal(r.response) = rpc'[c].resp
       /\ \A c \in Clients :
            /\ (rpc'[c].pc = "done" /\ rpc'[c].code # "OK") =>
                  ~rpc'[c].wrote /\ (rpc[c].pc # "done" => idem' = idem)
            /\ (/\ rpc[c].pc \in {"idle", "done"} /\ rpc'[c] # rpc[c]
                /\ rpc'[c].code = "OK"
                /\ ~\E r \in idem : r.key = rpc'[c].req.idempotency_key) =>
                  rpc'[c].pc = "mutate" /\ ~rpc'[c].hit]_vars

\* C35 witness: a keyed call ended with an error at its store statement, no
\* record was left for it, and a call with the same request and key ran the
\* statement and returned success.
C35_Witness ==
    \E c, d \in Clients :
        /\ c # d
        /\ rpc[c].pc = "done" /\ rpc[c].code = "Internal" /\ ~rpc[c].wrote
        /\ rpc[d].op = rpc[c].op /\ rpc[d].req = rpc[c].req
        /\ KeyOf(c) # ""
        /\ rpc[d].pc = "done" /\ rpc[d].code = "OK" /\ rpc[d].mutated /\ ~rpc[d].hit
        /\ applied[KeyOf(d)] = 1
        /\ \A r \in idem : r.key = KeyOf(c) => JsonUnmarshal(r.response) = rpc[d].resp

----------------------------------------------------------------------------
(* A record write that fails, checked under SpecDomain *)

\* C36: when the record write of a call fails after its store statement, the
\* call still returns the statement's result with success, the tables keep the
\* statement's effect, and idempotency_keys holds no record for the call's key.
C36_FailedRecordWrite ==
    [][\A c \in Clients :
         (/\ rpc[c].pc = "record" /\ rpc'[c].pc = "done"
          /\ ~rpc'[c].wrote /\ rpc'[c].code # "Unavailable") =>
            /\ rpc'[c].code = "OK" /\ rpc'[c].resp = rpc[c].resp
            /\ todos' = todos
            /\ rpc[c].rows > 0 => applied'[KeyOf(c)] >= 1
            /\ ~\E r \in idem' : r.key = KeyOf(c)]_vars

----------------------------------------------------------------------------
(* The key of the handler's calls, checked under SpecDispatch *)

\* C37: the handler runs only on a decoded envelope whose user_id and
\* idempotency_key are not empty; every mutating call it issues carries the
\* envelope's key, which is not empty; and no row is changed by a call
\* without a key.
C37_HandlerCallsCarryKey ==
    /\ \A c \in up :
          /\ con[c].pc \in {"ai", "found", "rpc", "publish"} =>
                /\ con[c].msg.idempotency_key # ""
                /\ con[c].msg.user_id # ""
          /\ (con[c].pc = "rpc" /\ rpc[c].op \in MutatingOps) =>
                /\ KeyOf(c) = con[c].msg.idempotency_key
                /\ KeyOf(c) # ""
    /\ applied[""] = 0

----------------------------------------------------------------------------
(* Whose response a replay returns, checked under SpecDomain *)

\* C38: a call that is answered from the record of its key gets a response
\* made for its own request: the todo in it belongs to the caller, it is the
\* todo the request names (for create, a todo with the request's title), and
\* it is in a state the request's operation leaves a todo in.
C38_ReplayToSameUser ==
    \A c \in Clients :
        rpc[c].hit =>
            /\ rpc[c].resp.user_id = rpc[c].req.user_id
            /\ rpc[c].op # "create" => rpc[c].resp.id = rpc[c].req.todo_id
            /\ rpc[c].op = "create" => rpc[c].resp.title = rpc[c].req.title
            /\ rpc[c].op = "delete" => rpc[c].resp.status = "TODO_STATUS_DELETED"
            /\ rpc[c].op = "complete" => rpc[c].resp.status # "TODO_STATUS_ACTIVE"

----------------------------------------------------------------------------
(* What a list command shows, checked under SpecResolve *)

\* C39: the reply to a list command has a line "#N: ..." for exactly the
\* sender's own items that the filter selects (completed: the completed ones;
\* all: the active and the completed ones; otherwise: the active ones), so
\* never for an item of another user or a deleted item; and the step changes
\* neither table.
C39_ListOwnNotDeleted ==
    [][\A c \in up :
         LET cmd    == con'[c].cmd
             user   == con[c].msg.user_id
             filter == Param(cmd, "filter")
             Shown(i) ==
                 /\ todos[i].user_id = user
                 /\ todos[i].status # "deleted"
                 /\ filter = Str.completed => todos[i].status = "completed"
                 /\ filter \notin {Str.completed, Str.all} =>
                       todos[i].status = "active"
         IN  (con[c].pc = "ai" /\ con'[c].pc # "ai" /\ cmd.action = "list") =>
                /\ con'[c].pc = "publish"
                /\ \A i \in DOMAIN todos :
                      contains(con'[c].result, Msg.Hash \o Itoa(i) \o Msg.Colon)
                          <=> Shown(i)
                /\ todos' = todos /\ idem' = idem]_vars

\* C39 witness: a list with the filter all was answered for a user who has an
\* active, a completed and a deleted item while another user has an item too;
\* the reply names the first two only.
C39_Witness ==
    \E c \in up :
        /\ con[c].pc = "publish" /\ con[c].cmd.action = "list"
        /\ Param(con[c].cmd, "filter") = Str.all
        /\ \E i, j, k, l \in DOMAIN todos :
              /\ todos[i].user_id = con[c].msg.user_id /\ todos[i].status = "active"
              /\ todos[j].user_id = con[c].msg.user_id /\ todos[j].status = "completed"
              /\ todos[k].user_id = con[c].msg.user_id /\ todos[k].status = "deleted"
              /\ todos[l].user_id # con[c].msg.user_id
              /\ contains(con[c].result, Msg.Hash \o Itoa(i) \o Msg.Colon)
              /\ contains(con[c].result, Msg.Hash \o Itoa(j) \o Msg.Colon)
              /\ ~contains(con[c].result, Msg.Hash \o Itoa(k) \o Msg.Colon)
              /\ ~contains(con[c].result, Msg.Hash \o Itoa(l) \o Msg.Colon)

====
